---------------------------- MODULE Spec2Model ----------------------------
(***************************************************************************)
(* Model of the tagger repository's TextTagGeneratorService               *)
(* (src/src/app/components/tag-generator/text-tag-generator.service.ts):   *)
(* preprocessing, word scoring, n-gram extraction and scoring, and the     *)
(* redundancy filter; and of the inflection engine next to it              *)
(* (src/src/app/components/tag-generator/pluralize.ts).                    *)
(*                                                                         *)
(* A JavaScript string is a sequence of one-character strings, so that     *)
(* split, join, endsWith and substring are computed, not assumed.  A Map   *)
(* is a sequence of <<key, value>> pairs in insertion order, which is the  *)
(* order JavaScript iterates it in.  A score is a fixed-point integer in   *)
(* millionths; Math.log, Math.exp and Math.sqrt are tabulated on the       *)
(* arguments the bounded inputs can produce.                               *)
(***************************************************************************)
EXTENDS Integers, Sequences, FiniteSets, TLC

VARIABLES
  stopWords,              \* the service's stopWords field
  text,                   \* generateTags argument: the raw text
  options,                \* generateTags argument: the GeneratorOptions
  pc,                     \* position inside generateTags
  words,                  \* const words = preprocessText(...)
  wordResults,            \* const wordResults = generateWordTags(...)
  phraseResults,          \* let phraseResults
  sortedTags,             \* filterComponentWords: sortedTags
  componentWordsToRemove, \* filterComponentWords: componentWordsToRemove
  phrasesToRemove,        \* filterComponentWords: phrasesToRemove
  passBRemoved,           \* history: phrasesToRemove as identifyRedundantTags left it
  result,                 \* the list generateTags returns
  memo,                   \* history: argument/result pairs of completed calls
  irregularSingles,       \* pluralize.ts: const irregularSingles
  irregularPlurals,       \* pluralize.ts: const irregularPlurals
  pluralRules,            \* pluralize.ts: const pluralRules
  singularRules,          \* pluralize.ts: const singularRules
  uncountables,           \* pluralize.ts: const uncountables (its keys)
  arg,                    \* the word of the latest plural/singular call
  returned,               \* what that call returned
  first,                  \* the token array looked for by a containment test
  second,                 \* the token array it is looked for in
  contains                \* what the containment test returned

tables ==
  << irregularSingles, irregularPlurals, pluralRules, singularRules, uncountables >>

inflectVars == << arg, returned >>

containVars == << first, second, contains >>

vars == << stopWords, text, options, pc, words, wordResults, phraseResults,
           sortedTags, componentWordsToRemove, phrasesToRemove, passBRemoved,
           result, memo, tables, inflectVars, containVars >>

-----------------------------------------------------------------------------
(* Bounds of the model *)

MaxTextWords == 3
MaxCallWords == 2
MaxCands == 3
MaxScore == 2
MaxTokens == 3

-----------------------------------------------------------------------------
(* Strings *)

Max(a, b) == IF a >= b THEN a ELSE b
Min(a, b) == IF a <= b THEN a ELSE b

LowerLetters ==
  { "a","b","c","d","e","f","g","h","i","j","k","l","m",
    "n","o","p","q","r","s","t","u","v","w","x","y","z" }
UpperLetters ==
  { "A","B","C","D","E","F","G","H","I","J","K","L","M",
    "N","O","P","Q","R","S","T","U","V","W","X","Y","Z" }
Digits == { "0","1","2","3","4","5","6","7","8","9" }

LowerOf ==
  [ c \in UpperLetters |->
      CASE c = "A" -> "a" [] c = "B" -> "b" [] c = "C" -> "c" [] c = "D" -> "d"
        [] c = "E" -> "e" [] c = "F" -> "f" [] c = "G" -> "g" [] c = "H" -> "h"
        [] c = "I" -> "i" [] c = "J" -> "j" [] c = "K" -> "k" [] c = "L" -> "l"
        [] c = "M" -> "m" [] c = "N" -> "n" [] c = "O" -> "o" [] c = "P" -> "p"
        [] c = "Q" -> "q" [] c = "R" -> "r" [] c = "S" -> "s" [] c = "T" -> "t"
        [] c = "U" -> "u" [] c = "V" -> "v" [] c = "W" -> "w" [] c = "X" -> "x"
        [] c = "Y" -> "y" [] c = "Z" -> "z" ]

\* String.prototype.toLowerCase
ToLowerCase(s) ==
  [ i \in 1..Len(s) |-> IF s[i] \in UpperLetters THEN LowerOf[s[i]] ELSE s[i] ]

\* the regular expression classes \w and \s
IsWordChar(c) == c \in LowerLetters \cup UpperLetters \cup Digits \cup {"_"}
IsSpace(c) == c \in {" ", "\t", "\n", "\r"}

\* String.prototype.endsWith
EndsWith(s, suffix) ==
  /\ Len(s) >= Len(suffix)
  /\ SubSeq(s, Len(s) - Len(suffix) + 1, Len(s)) = suffix

\* s.substring(0, s.length - n)
DropLast(s, n) == SubSeq(s, 1, Len(s) - n)

\* Array.prototype.join(' ')
RECURSIVE Join(_)
Join(ws) ==
  IF ws = << >> THEN << >>
  ELSE IF Len(ws) = 1 THEN ws[1]
  ELSE ws[1] \o <<" ">> \o Join(Tail(ws))

\* String.prototype.split(' '): the empty string splits into [""]
RECURSIVE Split(_)
Split(s) ==
  IF \A i \in 1..Len(s) : s[i] # " " THEN << s >>
  ELSE LET k == CHOOSE i \in 1..Len(s) :
                  s[i] = " " /\ \A j \in 1..(i - 1) : s[j] # " "
       IN  << SubSeq(s, 1, k - 1) >> \o Split(SubSeq(s, k + 1, Len(s)))

\* Array.prototype.slice(start, end), negative indices counting from the end
Slice(a, start, end) ==
  LET n  == Len(a)
      from == IF start < 0 THEN Max(n + start, 0) ELSE Min(start, n)
      to   == IF end < 0 THEN Max(n + end, 0) ELSE Min(end, n)
  IN  SubSeq(a, from + 1, to)

-----------------------------------------------------------------------------
(* Maps in insertion order *)

MapHas(m, k) == \E i \in 1..Len(m) : m[i][1] = k
MapGet(m, k) == m[CHOOSE i \in 1..Len(m) : m[i][1] = k][2]
\* map.get(k) || 0
MapGetOr0(m, k) == IF MapHas(m, k) THEN MapGet(m, k) ELSE 0
\* map.set(k, v): a present key keeps its position
MapSet(m, k, v) ==
  IF MapHas(m, k)
  THEN [ i \in 1..Len(m) |-> IF m[i][1] = k THEN << k, v >> ELSE m[i] ]
  ELSE Append(m, << k, v >>)

\* Array.prototype.sort((a, b) => b.score - a.score): stable, descending
RECURSIVE InsertByScore(_, _)
InsertByScore(sorted, t) ==
  IF sorted = << >> THEN << t >>
  ELSE IF sorted[1].score >= t.score
       THEN << sorted[1] >> \o InsertByScore(Tail(sorted), t)
       ELSE << t >> \o sorted

RECURSIVE SortByScoreDesc(_)
SortByScoreDesc(ts) ==
  IF ts = << >> THEN << >>
  ELSE InsertByScore(SortByScoreDesc(SubSeq(ts, 1, Len(ts) - 1)), ts[Len(ts)])

-----------------------------------------------------------------------------
(* Constants of the service *)

StopWordList ==
  { <<"a">>, <<"a","n">>, <<"a","n","d">>, <<"a","r","e">>,
    <<"a","s">>, <<"a","t">>, <<"b","e">>, <<"b","y">>,
    <<"f","o","r">>, <<"f","r","o","m">>, <<"h","a","s">>, <<"h","e">>,
    <<"i","n">>, <<"i","s">>, <<"i","t">>, <<"i","t","s">>,
    <<"o","f">>, <<"o","n">>, <<"t","h","a","t">>, <<"t","h","e">>,
    <<"t","o">>, <<"w","a","s">>, <<"w","i","l","l">>, <<"w","i","t","h">>,
    <<"w","o","u","l","d">>, <<"c","o","u","l","d">>, <<"s","h","o","u","l","d">>, <<"t","h","i","s">>,
    <<"t","h","e","s","e">>, <<"t","h","e","y">>, <<"t","h","e","m">>, <<"t","h","e","i","r">>,
    <<"t","h","e","r","e">>, <<"t","h","e","n">>, <<"t","h","a","n">>, <<"w","h","e","n">>,
    <<"w","h","e","r","e">>, <<"w","h","o">>, <<"w","h","i","c","h">>, <<"w","h","a","t">>,
    <<"h","o","w">>, <<"w","h","y">>, <<"b","u","t">>, <<"o","r">>,
    <<"s","o">>, <<"i","f">>, <<"c","a","n">>, <<"h","a","v","e">>,
    <<"h","a","d">>, <<"b","e","e","n">>, <<"b","e","i","n","g">>, <<"d","o">>,
    <<"d","o","e","s">>, <<"d","i","d">>, <<"t","h","r","o","u","g","h">>, <<"v","e","r","y">>,
    <<"r","e","a","l","l","y">>, <<"q","u","i","t","e">>, <<"j","u","s","t">>, <<"o","n","l","y">>,
    <<"a","l","s","o">>, <<"e","v","e","n">>, <<"s","t","i","l","l">>, <<"i">>,
    <<"y","o","u">>, <<"w","e">>, <<"u","s">>, <<"m","e">>,
    <<"m","y">>, <<"y","o","u","r">>, <<"o","u","r">>, <<"h","i","s">>,
    <<"h","e","r">>, <<"h","i","m">>, <<"s","h","e">>, <<"s","o","m","e">>,
    <<"a","n","y">>, <<"a","l","l">>, <<"e","a","c","h">>, <<"e","v","e","r","y">>,
    <<"n","o">>, <<"b","o","t","h">>, <<"e","i","t","h","e","r">>, <<"n","e","i","t","h","e","r">>,
    <<"s","u","c","h">>, <<"a","b","o","u","t">>, <<"a","b","o","v","e">>, <<"a","c","r","o","s","s">>,
    <<"a","f","t","e","r">>, <<"a","g","a","i","n","s","t">>, <<"a","l","o","n","g">>, <<"a","m","o","n","g">>,
    <<"a","r","o","u","n","d">>, <<"b","e","f","o","r","e">>, <<"b","e","h","i","n","d">>, <<"b","e","l","o","w">>,
    <<"b","e","n","e","a","t","h">>, <<"b","e","s","i","d","e">>, <<"b","e","t","w","e","e","n">>, <<"b","e","y","o","n","d">>,
    <<"d","u","r","i","n","g">>, <<"e","x","c","e","p","t">>, <<"i","n","s","i","d","e">>, <<"i","n","t","o">>,
    <<"n","e","a","r">>, <<"o","v","e","r">>, <<"s","i","n","c","e">>, <<"u","n","d","e","r">>,
    <<"u","n","t","i","l">>, <<"u","p","o","n">>, <<"w","i","t","h","i","n">>, <<"w","i","t","h","o","u","t">>,
    <<"g","e","t">>, <<"g","o","t">>, <<"m","a","k","e">>, <<"m","a","d","e">>,
    <<"t","a","k","e">>, <<"t","o","o","k">>, <<"c","o","m","e">>, <<"c","a","m","e">>,
    <<"g","o">>, <<"w","e","n","t">>, <<"s","e","e">>, <<"s","a","w">>,
    <<"k","n","o","w">>, <<"k","n","e","w">>, <<"t","h","i","n","k">>, <<"t","h","o","u","g","h","t">>,
    <<"s","a","y">>, <<"s","a","i","d">>, <<"g","i","v","e">>, <<"g","a","v","e">>,
    <<"m","a","y">>, <<"m","i","g","h","t">>, <<"m","u","s","t">>, <<"s","h","a","l","l">>,
    <<"o","u","g","h","t">>, <<"m","u","c","h">>, <<"m","a","n","y">>, <<"m","o","r","e">>,
    <<"m","o","s","t">>, <<"l","e","s","s">>, <<"f","e","w">>, <<"l","i","t","t","l","e">>,
    <<"e","n","o","u","g","h">>, <<"t","o","o">>, <<"r","a","t","h","e","r">>, <<"p","r","e","t","t","y">>,
    <<"f","a","i","r","l","y">>, <<"n","o","t">>, <<"n","o","n","e">>, <<"n","o","t","h","i","n","g">>,
    <<"n","o","b","o","d","y">>, <<"n","o","w","h","e","r","e">> }

SCALE == 1000000

\* SCORING_WEIGHTS, in hundredths
W_termFrequency == 45
W_lengthBonus == 10
W_frequencySignificance == 45
W_componentScore == 40
W_frequencyScore == 30
W_cohesionScore == 20
W_lengthPenalty == 10

\* Math.log(n) / Math.log(10) for n = 1..16, in millionths
Log10Table ==
  << 0, 301030, 477121, 602060, 698970, 778151, 845098, 903090,
     954243, 1000000, 1041393, 1079181, 1113943, 1146128, 1176091, 1204120 >>

\* 1 / Math.sqrt(n) for n = 1..16, in millionths
InvSqrtTable ==
  << 1000000, 707107, 577350, 500000, 447214, 408248, 377964, 353553,
     333333, 316228, 301511, 288675, 277350, 267261, 258199, 250000 >>

\* Math.exp(-Math.abs(f / N - 0.03) * 50) at [N][f], f <= N <= 16, in millionths
FreqSignificanceTable ==
  << << 0 >>,
     << 0, 0 >>,
     << 0, 0, 0 >>,
     << 17, 0, 0, 0 >>,
     << 203, 0, 0, 0, 0 >>,
     << 1077, 0, 0, 0, 0, 0 >>,
     << 3543, 3, 0, 0, 0, 0, 0 >>,
     << 8652, 17, 0, 0, 0, 0, 0, 0 >>,
     << 17326, 67, 0, 0, 0, 0, 0, 0, 0 >>,
     << 30197, 203, 1, 0, 0, 0, 0, 0, 0, 0 >>,
     << 47575, 505, 5, 0, 0, 0, 0, 0, 0, 0, 0 >>,
     << 69483, 1077, 17, 0, 0, 0, 0, 0, 0, 0, 0, 0 >>,
     << 95737, 2045, 44, 1, 0, 0, 0, 0, 0, 0, 0, 0, 0 >>,
     << 126006, 3543, 100, 3, 0, 0, 0, 0, 0, 0, 0, 0, 0, 0 >>,
     << 159880, 5704, 203, 7, 0, 0, 0, 0, 0, 0, 0, 0, 0, 0, 0 >>,
     << 196912, 8652, 380, 17, 1, 0, 0, 0, 0, 0, 0, 0, 0, 0, 0, 0 >> >>

\* Math.log(f + 1) / Math.log(m + 1) at [m][f], f <= m <= 20, in millionths
LogRatioTable ==
  << << 1000000 >>,
     << 630930, 1000000 >>,
     << 500000, 792481, 1000000 >>,
     << 430677, 682606, 861353, 1000000 >>,
     << 386853, 613147, 773706, 898244, 1000000 >>,
     << 356207, 564575, 712414, 827087, 920782, 1000000 >>,
     << 333333, 528321, 666667, 773976, 861654, 935785, 1000000 >>,
     << 315465, 500000, 630930, 732487, 815465, 885622, 946395, 1000000 >>,
     << 301030, 477121, 602060, 698970, 778151, 845098, 903090, 954243, 1000000 >>,
     << 289065, 458157, 578130, 671188, 747222, 811508, 867194, 916314, 960253, 1000000 >>,
     << 278943, 442114, 557886, 647685, 721057, 783092, 836829, 884228, 926628, 964984, 1000000 >>,
     << 270238, 428317, 540476, 627474, 698555, 758654, 810714, 856635, 897712, 934870, 968794, 1000000 >>,
     << 262650, 416290, 525299, 609853, 678939, 737350, 787949, 832579, 872503, 908618, 941589, 971919, 1000000 >>,
     << 255958, 405684, 511916, 594316, 661642, 718565, 767874, 811368, 850274, 885469, 917600, 947157, 974523, 1000000 >>,
     << 250000, 396241, 500000, 580482, 646241, 701839, 750000, 792481, 830482, 864858, 896241, 925110, 951839, 976723, 1000000 >>,
     << 244651, 387762, 489301, 568061, 632412, 686821, 733952, 775524, 812712, 846352, 877063, 905315, 931471, 955823, 978602, 1000000 >>,
     << 239812, 380094, 479625, 556827, 619906, 673239, 719437, 760188, 796640, 829615, 859719, 887412, 913051, 936921, 959250, 980225, 1000000 >>,
     << 235409, 373114, 470818, 546603, 608523, 660876, 706227, 746229, 782011, 814381, 843932, 871116, 896285, 919717, 941636, 962225, 981638, 1000000 >>,
     << 231378, 366726, 462756, 537244, 598104, 649561, 694135, 733452, 768622, 800437, 829482, 856201, 880939, 903969, 925513, 945750, 964830, 982878, 1000000 >>,
     << 227670, 360849, 455340, 528634, 588519, 639151, 683011, 721698, 756304, 787610, 816189, 842480, 866821, 889483, 910681, 930594, 949368, 967127, 983974, 1000000 >> >>

-----------------------------------------------------------------------------
(* Text preprocessing *)

\* processedText.replace(/(['']s|s[''])\b/g, '')
RECURSIVE StripPossessive(_)
StripPossessive(s) ==
  IF Len(s) < 2 THEN s
  ELSE LET matches  == \/ (s[1] = "'" /\ s[2] = "s")
                       \/ (s[1] = "s" /\ s[2] = "'")
           wordNext == Len(s) >= 3 /\ IsWordChar(s[3])
           boundary == IsWordChar(s[2]) # wordNext
       IN  IF matches /\ boundary
           THEN StripPossessive(SubSeq(s, 3, Len(s)))
           ELSE << s[1] >> \o StripPossessive(Tail(s))

\* processedText.replace(/[^\w\s]/g, ' ')
ReplaceNonWord(s) ==
  [ i \in 1..Len(s) |->
      IF ~IsWordChar(s[i]) /\ ~IsSpace(s[i]) THEN " " ELSE s[i] ]

\* processedText.replace(/\s+/g, ' ').trim().split(/\s+/)
RECURSIVE WhitespaceRuns(_, _)
WhitespaceRuns(s, cur) ==
  IF s = << >> THEN (IF cur = << >> THEN << >> ELSE << cur >>)
  ELSE IF IsSpace(s[1])
       THEN (IF cur = << >> THEN << >> ELSE << cur >>)
              \o WhitespaceRuns(Tail(s), << >>)
       ELSE WhitespaceRuns(Tail(s), Append(cur, s[1]))

SplitWhitespace(s) ==
  LET runs == WhitespaceRuns(s, << >>)
  IN  IF runs = << >> THEN << << >> >> ELSE runs

\* the grave accent, which a string literal here cannot hold
GraveAccent == "GRAVE"

\* the test of a word against the class of quotes, grave accent, hyphen and
\* underscore, one or more times, anchored at both ends
IsQuoteOnly(w) ==
  /\ Len(w) >= 1
  /\ \A i \in 1..Len(w) : w[i] \in {"'", "\"", GraveAccent, "-", "_"}

preprocessText(txt, caseSensitive, stop) ==
  LET lowered  == IF caseSensitive THEN txt ELSE ToLowerCase(txt)
      stripped == StripPossessive(lowered)
      cleaned  == ReplaceNonWord(stripped)
      Keep(w)  == Len(w) > 1 /\ w \notin stop /\ ~IsQuoteOnly(w)
  IN  SelectSeq(SplitWhitespace(cleaned), Keep)

-----------------------------------------------------------------------------
(* Word tag generation *)

\* Math.max(...values): -Infinity for no values
NegInfinity == "-Infinity"

RECURSIVE MaxOfSeq(_)
MaxOfSeq(vals) ==
  IF Len(vals) = 1 THEN vals[1] ELSE Max(vals[1], MaxOfSeq(Tail(vals)))

MathMaxValues(m) ==
  IF m = << >> THEN NegInfinity
  ELSE MaxOfSeq([ i \in 1..Len(m) |-> m[i][2] ])

RECURSIVE calculateWordFrequency(_)
calculateWordFrequency(ws) ==
  IF ws = << >> THEN << >>
  ELSE LET frequency == calculateWordFrequency(SubSeq(ws, 1, Len(ws) - 1))
           word      == ws[Len(ws)]
       IN  MapSet(frequency, word, MapGetOr0(frequency, word) + 1)

\* filterWords keeping a word that meets either threshold
filterWordsEither(wordFreq, minLength, minFrequency) ==
  LET Keep(e) == Len(e[1]) >= minLength \/ e[2] >= minFrequency
  IN  SelectSeq(wordFreq, Keep)

filterWords(wordFreq, minLength, minFrequency) ==
  LET Keep(e) == Len(e[1]) >= minLength /\ e[2] >= minFrequency
  IN  SelectSeq(wordFreq, Keep)

calculateFrequencySignificance(frequency, totalWords) ==
  FreqSignificanceTable[totalWords][frequency]

\* lengthBonus = Math.min(1, word.length / 10)
LengthBonusLinearCapped(word) == Min(SCALE, (Len(word) * SCALE) \div 10)

\* lengthBonus = Math.log(word.length) / Math.log(10)
LengthBonus(word) == Log10Table[Len(word)]

calculateWordScores(wordFreq, totalWords) ==
  LET maxFreq == MathMaxValues(wordFreq)
      ScoreOf(e) ==
        LET tf == (e[2] * SCALE) \div maxFreq
            lengthBonus == LengthBonus(e[1])
            freqSignificance == calculateFrequencySignificance(e[2], totalWords)
        IN  (tf * W_termFrequency + lengthBonus * W_lengthBonus
               + freqSignificance * W_frequencySignificance) \div 100
  IN  [ i \in 1..Len(wordFreq) |-> << wordFreq[i][1], ScoreOf(wordFreq[i]) >> ]

generateWordTags(ws, minWordLength, minFrequency, maxTags) ==
  LET wordFreq      == calculateWordFrequency(ws)
      filteredWords == filterWords(wordFreq, minWordLength, minFrequency)
      wordScores    == calculateWordScores(filteredWords, Len(ws))
      results ==
        [ i \in 1..Len(wordScores) |->
            [ tag |-> wordScores[i][1], score |-> wordScores[i][2],
              frequency |-> MapGetOr0(wordFreq, wordScores[i][1]),
              type |-> "word" ] ]
  IN  Slice(SortByScoreDesc(results), 0, maxTags)

-----------------------------------------------------------------------------
(* Phrase tag generation *)

\* an optional number: << >> is undefined, << n >> is n
Undefined == << >>
Some(n) == << n >>

\* determinNgramSizes reading a range in either order
determinNgramSizesEitherOrder(ngramSizes, minNgramSize, maxNgramSize) ==
  IF minNgramSize # Undefined /\ maxNgramSize # Undefined
  THEN LET lo == Min(minNgramSize[1], maxNgramSize[1])
           hi == Max(minNgramSize[1], maxNgramSize[1])
       IN  [ k \in 1..(hi - lo + 1) |-> lo + k - 1 ]
  ELSE ngramSizes

\* determinNgramSizes letting the explicit list win over the range
determinNgramSizesListFirst(ngramSizes, minNgramSize, maxNgramSize) ==
  ngramSizes

determinNgramSizes(ngramSizes, minNgramSize, maxNgramSize) ==
  IF minNgramSize # Undefined /\ maxNgramSize # Undefined
  THEN [ k \in 1..(maxNgramSize[1] - minNgramSize[1] + 1) |->
           minNgramSize[1] + k - 1 ]
  ELSE ngramSizes

\* the n-grams of one size, in the order of the inner loop
NgramsOfSize(ws, size) ==
  [ k \in 1..Max(0, Len(ws) - size + 1) |-> Join(Slice(ws, k - 1, k - 1 + size)) ]

RECURSIVE NgramSequence(_, _)
NgramSequence(ws, sizes) ==
  IF sizes = << >> THEN << >>
  ELSE NgramsOfSize(ws, sizes[1]) \o NgramSequence(ws, Tail(sizes))

extractNgrams(ws, sizes) == calculateWordFrequency(NgramSequence(ws, sizes))

\* the value of 0 / 0; every arithmetic operation on it yields it again
NaN == -1

\* calculateAverageComponentScore dividing without the validComponents guard
calculateAverageComponentScoreUnguarded(phraseWords, wordScores) ==
  LET Valid(w) == MapHas(wordScores, w)
      valid == SelectSeq(phraseWords, Valid)
      RECURSIVE Sum(_)
      Sum(vs) == IF vs = << >> THEN 0
                 ELSE MapGet(wordScores, vs[1]) + Sum(Tail(vs))
  IN  IF Len(valid) > 0 THEN Sum(valid) \div Len(valid) ELSE NaN

\* calculateAverageComponentScore returning the sum, not the average
calculateAverageComponentScoreSum(phraseWords, wordScores) ==
  LET Valid(w) == MapHas(wordScores, w)
      valid == SelectSeq(phraseWords, Valid)
      RECURSIVE Sum(_)
      Sum(vs) == IF vs = << >> THEN 0
                 ELSE MapGet(wordScores, vs[1]) + Sum(Tail(vs))
  IN  Sum(valid)

calculateAverageComponentScore(phraseWords, wordScores) ==
  LET Valid(w) == MapHas(wordScores, w)
      valid == SelectSeq(phraseWords, Valid)
      RECURSIVE Sum(_)
      Sum(vs) == IF vs = << >> THEN 0
                 ELSE MapGet(wordScores, vs[1]) + Sum(Tail(vs))
  IN  IF Len(valid) > 0 THEN Sum(valid) \div Len(valid) ELSE 0

\* calculateCohesionScore with expectedFreq started at 1
calculateCohesionScoreFromOne(phraseWords, phraseFreq, wordFrequencies, totalWords) ==
  LET RECURSIVE Expected(_, _)
      Expected(ws, acc) ==
        IF ws = << >> THEN acc
        ELSE Expected(Tail(ws), Min(acc, MapGetOr0(wordFrequencies, ws[1])))
      expectedFreq == Expected(phraseWords, 1)
  IN  IF expectedFreq > 0
      THEN Min((phraseFreq * SCALE) \div expectedFreq, SCALE)
      ELSE 0

calculateCohesionScore(phraseWords, phraseFreq, wordFrequencies, totalWords) ==
  LET RECURSIVE Expected(_, _)
      Expected(ws, acc) ==
        IF ws = << >> THEN acc
        ELSE Expected(Tail(ws), Min(acc, MapGetOr0(wordFrequencies, ws[1])))
      expectedFreq == Expected(phraseWords, totalWords)
  IN  IF expectedFreq > 0
      THEN Min((phraseFreq * SCALE) \div expectedFreq, SCALE)
      ELSE 0

calculatePhraseScore(phrase, phraseFreq, maxPhraseFreq, wordScores, wordFrequencies, totalWords) ==
  LET phraseWords == Split(phrase)
      avgComponentScore ==
        calculateAverageComponentScore(phraseWords, wordScores)
      phraseFreqScore == LogRatioTable[maxPhraseFreq][phraseFreq]
      cohesionScore ==
        calculateCohesionScore(phraseWords, phraseFreq, wordFrequencies,
                               totalWords)
      lengthPenalty == InvSqrtTable[Len(phraseWords)]
  IN  IF avgComponentScore = NaN THEN NaN
      ELSE (avgComponentScore * W_componentScore
              + phraseFreqScore * W_frequencyScore
              + cohesionScore * W_cohesionScore
              + lengthPenalty * W_lengthPenalty) \div 100

\* scoreNgrams without the test freq >= minFrequency
scoreNgramsKeepAll(ngrams, wordScores, wordFrequencies, totalWords, minFrequency) ==
  LET maxNgramFreq == MathMaxValues(ngrams)
  IN  [ i \in 1..Len(ngrams) |->
          << ngrams[i][1],
             [ score |-> calculatePhraseScore(ngrams[i][1], ngrams[i][2],
                            maxNgramFreq, wordScores, wordFrequencies,
                            totalWords),
               frequency |-> ngrams[i][2] ] >> ]

scoreNgrams(ngrams, wordScores, wordFrequencies, totalWords, minFrequency) ==
  LET maxNgramFreq == MathMaxValues(ngrams)
      Keep(e) == e[2] >= minFrequency
      kept == SelectSeq(ngrams, Keep)
  IN  [ i \in 1..Len(kept) |->
          << kept[i][1],
             [ score |-> calculatePhraseScore(kept[i][1], kept[i][2],
                            maxNgramFreq, wordScores, wordFrequencies,
                            totalWords),
               frequency |-> kept[i][2] ] >> ]

generateNgrams(ws, ngramSizes, minNgramSize, maxNgramSize, minFrequency) ==
  LET wordFrequencies == calculateWordFrequency(ws)
      wordScores      == calculateWordScores(wordFrequencies, Len(ws))
      sizesToGenerate ==
        determinNgramSizes(ngramSizes, minNgramSize, maxNgramSize)
      ngrams          == extractNgrams(ws, sizesToGenerate)
  IN  scoreNgrams(ngrams, wordScores, wordFrequencies, Len(ws), minFrequency)

generatePhraseTags(ws, ngramSizes, minNgramSize, maxNgramSize, minFrequency, maxTags) ==
  LET ngramScores ==
        generateNgrams(ws, ngramSizes, minNgramSize, maxNgramSize,
                       minFrequency)
      results ==
        [ i \in 1..Len(ngramScores) |->
            [ tag |-> ngramScores[i][1], score |-> ngramScores[i][2].score,
              frequency |-> ngramScores[i][2].frequency,
              type |-> "phrase" ] ]
  IN  Slice(SortByScoreDesc(results), 0, maxTags)

-----------------------------------------------------------------------------
(* Post-processing: the redundancy filter *)

Range(s) == { s[i] : i \in 1..Len(s) }

isSubsequence(needle, haystack) ==
  \E i \in 0..(Len(haystack) - Len(needle)) :
    \A j \in 1..Len(needle) : haystack[i + j] = needle[j]

\* checkPhraseOverlaps returning after the first phrase it marks
checkPhraseOverlapsFirstOnly(phrase, allTags, toRemove) ==
  LET phraseWords == Split(phrase.tag)
      holders == { j \in 1..Len(allTags) :
                     /\ allTags[j].type = "phrase"
                     /\ allTags[j].tag # phrase.tag
                     /\ allTags[j].score < phrase.score
                     /\ isSubsequence(phraseWords, Split(allTags[j].tag)) }
  IN  toRemove \cup
        { allTags[k].tag : k \in { j \in holders : \A o \in holders : j <= o } }

\* checkPhraseOverlaps marking only the phrases one token longer
checkPhraseOverlapsOneLonger(phrase, allTags, toRemove) ==
  LET phraseWords == Split(phrase.tag)
  IN  toRemove \cup
        { allTags[k].tag : k \in
            { j \in 1..Len(allTags) :
                /\ allTags[j].type = "phrase"
                /\ allTags[j].tag # phrase.tag
                /\ allTags[j].score < phrase.score
                /\ Len(Split(allTags[j].tag)) = Len(phraseWords) + 1
                /\ isSubsequence(phraseWords, Split(allTags[j].tag)) } }

\* the tags checkPhraseOverlaps adds to phrasesToRemove
checkPhraseOverlaps(phrase, allTags, toRemove) ==
  LET phraseWords == Split(phrase.tag)
  IN  toRemove \cup
        { allTags[k].tag : k \in
            { j \in 1..Len(allTags) :
                /\ allTags[j].type = "phrase"
                /\ allTags[j].tag # phrase.tag
                /\ allTags[j].score < phrase.score
                /\ isSubsequence(phraseWords, Split(allTags[j].tag)) } }

\* the loop of identifyRedundantTags from position i on
RECURSIVE identifyRedundantTagsFrom(_, _, _, _)
identifyRedundantTagsFrom(tags, i, components, toRemove) ==
  IF i > Len(tags)
  THEN [ componentWordsToRemove |-> components, phrasesToRemove |-> toRemove ]
  ELSE IF tags[i].type = "phrase" /\ tags[i].tag \notin toRemove
       THEN identifyRedundantTagsFrom(tags, i + 1,
              components \cup Range(Split(tags[i].tag)),
              checkPhraseOverlaps(tags[i], tags, toRemove))
       ELSE identifyRedundantTagsFrom(tags, i + 1, components, toRemove)

\* identifyRedundantTags marking overlapping phrases only
identifyRedundantTagsOverlapsOnly(tags, components, toRemove) ==
  [ identifyRedundantTagsFrom(tags, 1, components, toRemove)
      EXCEPT !.componentWordsToRemove = components ]

identifyRedundantTags(tags, components, toRemove) ==
  identifyRedundantTagsFrom(tags, 1, components, toRemove)

\* tagMap.has / tagMap.get: a later tag of the same text replaces an earlier
TagMapHas(tags, key) == \E i \in 1..Len(tags) : tags[i].tag = key
TagMapGet(tags, key) ==
  tags[CHOOSE i \in 1..Len(tags) :
         /\ tags[i].tag = key
         /\ \A j \in (i + 1)..Len(tags) : tags[j].tag # key]

\* [...words.slice(0, words.length - 1), last].join(' ')
WithLastWord(ws, last) == Join(Append(SubSeq(ws, 1, Len(ws) - 1), last))

\* one iteration of the loop of identifyDirectSingularPluralPairs
DirectPairStep(tag, tags, toRemove) ==
  LET ws       == Split(tag.tag)
      lastWord == ws[Len(ws)]
  IN  IF tag.tag \in toRemove THEN toRemove
      ELSE IF Len(ws) <= 1 THEN toRemove
      ELSE IF EndsWith(lastWord, <<"s">>)
      THEN LET potentialSingular == WithLastWord(ws, DropLast(lastWord, 1))
           IN  IF TagMapHas(tags, potentialSingular)
               THEN LET singularTag == TagMapGet(tags, potentialSingular)
                    IN  IF tag.score > singularTag.score
                        THEN toRemove \cup { singularTag.tag }
                        ELSE toRemove \cup { tag.tag }
               ELSE toRemove
      ELSE LET potentialPlural == WithLastWord(ws, lastWord \o <<"s">>)
           IN  IF TagMapHas(tags, potentialPlural)
               THEN LET pluralTag == TagMapGet(tags, potentialPlural)
                    IN  IF tag.score > pluralTag.score
                        THEN toRemove \cup { pluralTag.tag }
                        ELSE toRemove \cup { tag.tag }
               ELSE toRemove

RECURSIVE identifyDirectSingularPluralPairsFrom(_, _, _)
identifyDirectSingularPluralPairsFrom(tags, i, toRemove) ==
  IF i > Len(tags) THEN toRemove
  ELSE identifyDirectSingularPluralPairsFrom(tags, i + 1,
         DirectPairStep(tags[i], tags, toRemove))

identifyDirectSingularPluralPairs(tags, toRemove) ==
  identifyDirectSingularPluralPairsFrom(tags, 1, toRemove)

getSingularForm(txt) ==
  LET ws       == Split(txt)
      lastWord == ws[Len(ws)]
      singularLastWord ==
        IF EndsWith(lastWord, <<"s">>)
        THEN IF EndsWith(lastWord, <<"i","e","s">>)
             THEN DropLast(lastWord, 3) \o <<"y">>
             ELSE IF /\ EndsWith(lastWord, <<"e","s">>)
                     /\ \/ EndsWith(lastWord, <<"c","h","e","s">>)
                        \/ EndsWith(lastWord, <<"s","h","e","s">>)
                        \/ EndsWith(lastWord, <<"s","s","e","s">>)
                        \/ EndsWith(lastWord, <<"x","e","s">>)
             THEN DropLast(lastWord, 2)
             ELSE DropLast(lastWord, 1)
        ELSE lastWord
  IN  IF Len(ws) > 1
      THEN Join(SubSeq(ws, 1, Len(ws) - 1)) \o <<" ">> \o singularLastWord
      ELSE singularLastWord

Abs(n) == IF n < 0 THEN -n ELSE n

\* first pass of groupSingularPluralForms: the tags that enter a group,
\* with the group's key
GroupedUnder(tag, toRemove) ==
  LET base == getSingularForm(tag.tag)
  IN  /\ tag.tag \notin toRemove
      /\ ~(Abs(Len(tag.tag) - Len(base)) <= 1 \/ Len(tag.tag) < 4)
      /\ base # tag.tag

\* second pass: every variant of a group but its highest scoring one
GroupLosers(tags, toRemove) ==
  LET members(base) ==
        SelectSeq(tags, LAMBDA t : GroupedUnder(t, toRemove)
                                     /\ getSingularForm(t.tag) = base)
      bases == { getSingularForm(tags[i].tag) :
                   i \in { j \in 1..Len(tags) : GroupedUnder(tags[j], toRemove) } }
  IN  UNION { LET variants == SortByScoreDesc(members(base))
              IN  { variants[i].tag : i \in 2..Len(variants) } : base \in bases }

groupSingularPluralForms(tags, toRemove) ==
  LET afterDirect == identifyDirectSingularPluralPairs(tags, toRemove)
  IN  afterDirect \cup GroupLosers(tags, afterDirect)

\* the final loop keeping every word
FinalFilterKeepsWords(tags, components, toRemove) ==
  LET Keep(t) == \/ t.type = "phrase" /\ t.tag \notin toRemove
                 \/ t.type = "word"
  IN  SelectSeq(tags, Keep)

\* the final loop of filterComponentWords
FinalFilter(tags, components, toRemove) ==
  LET Keep(t) == \/ t.type = "phrase" /\ t.tag \notin toRemove
                 \/ t.type = "word" /\ t.tag \notin components
  IN  SelectSeq(tags, Keep)

filterComponentWords(tags) ==
  LET sorted == SortByScoreDesc(tags)
      marked == identifyRedundantTags(sorted, {}, {})
      toRemove == groupSingularPluralForms(sorted, marked.phrasesToRemove)
  IN  FinalFilter(sorted, marked.componentWordsToRemove, toRemove)

-----------------------------------------------------------------------------
(* Inputs *)

S_cat   == <<"c","a","t">>
S_cats  == <<"c","a","t","s">>
S_the   == <<"t","h","e">>
S_x     == <<"x">>
S_red   == <<"r","e","d">>
S_box   == <<"b","o","x">>
S_boxes == <<"b","o","x","e","s">>

S_information == <<"i","n","f","o","r","m","a","t","i","o","n">>

CoreVocabulary == { S_cat, S_cats, S_the, S_x }

SeqsUpTo(S, n) == UNION { [1..k -> S] : k \in 0..n }

\* "the cat sat on the mat the cat ran across the mat"
CatMatText ==
  Join(<< S_the, S_cat, <<"s","a","t">>, <<"o","n">>, S_the, <<"m","a","t">>,
          S_the, S_cat, <<"r","a","n">>, <<"a","c","r","o","s","s">>, S_the,
          <<"m","a","t">> >>)

\* raw texts other than the enumerated ones
ExtraTexts ==
  { CatMatText,
    Join(<< S_information, S_cat >>),
    Join(<< S_box, S_box, S_boxes >>),
    Join(<< S_red, S_cat, S_red, S_cats >>),
    Join(<< S_red, S_cats, S_red, S_cat >>),
    Join(<< S_red, S_cat, S_box, S_red, S_cat >>),
    Join(<< S_cat, S_cat, S_cats, S_cats, S_cats >>),
    <<"T","h","e"," ","c","a","t","'","s"," ","C","a","t","s","'"," ","c","a","t">>,
    <<"r","e","d","-","c","a","t",","," "," ","_","_"," ","r","e","d">> }

Texts == { Join(ws) : ws \in SeqsUpTo(CoreVocabulary, MaxTextWords) } \cup ExtraTexts

\* the defaults of the destructuring in generateTags
DefaultOptions ==
  [ maxTags |-> 10, minWordLength |-> 3, minFrequency |-> 1,
    includeNgrams |-> TRUE, ngramSizes |-> << 2 >>,
    minNgramSize |-> Undefined, maxNgramSize |-> Undefined,
    caseSensitive |-> FALSE ]

OptionSets ==
  { DefaultOptions,
    [ DefaultOptions EXCEPT !.includeNgrams = FALSE, !.minFrequency = 2 ],
    [ DefaultOptions EXCEPT !.includeNgrams = FALSE, !.maxTags = 1 ],
    [ DefaultOptions EXCEPT !.ngramSizes = << 1, 2 >> ],
    [ DefaultOptions EXCEPT !.ngramSizes = << 2, 2 >> ],
    [ DefaultOptions EXCEPT !.ngramSizes = << 0 >> ],
    [ DefaultOptions EXCEPT !.ngramSizes = << -1 >> ],
    [ DefaultOptions EXCEPT !.ngramSizes = << 1 >>, !.minNgramSize = Some(2),
                            !.maxNgramSize = Some(3), !.maxTags = 2 ],
    [ DefaultOptions EXCEPT !.minNgramSize = Some(3), !.maxNgramSize = Some(2) ],
    [ DefaultOptions EXCEPT !.minNgramSize = Some(3) ],
    [ DefaultOptions EXCEPT !.maxTags = -1 ],
    [ DefaultOptions EXCEPT !.maxTags = 1, !.minFrequency = 2 ],
    [ DefaultOptions EXCEPT !.minFrequency = 2, !.ngramSizes = << 1, 2 >> ],
    [ DefaultOptions EXCEPT !.minFrequency = 2, !.ngramSizes = << 1, 2, 2, 2 >> ],
    [ DefaultOptions EXCEPT !.ngramSizes = << 1, 2, 3 >> ],
    [ DefaultOptions EXCEPT !.minWordLength = 4, !.caseSensitive = TRUE,
                            !.ngramSizes = << 2, 3 >> ] }

CallVocabulary == { S_cat, S_cats }
CallTexts == { Join(ws) : ws \in SeqsUpTo(CallVocabulary, MaxCallWords) }
CallOptions ==
  { DefaultOptions,
    [ DefaultOptions EXCEPT !.ngramSizes = << 1, 2 >> ],
    [ DefaultOptions EXCEPT !.includeNgrams = FALSE ] }

\* candidate lists handed to filterComponentWords
CandWordTags == { S_red, S_cat, S_cats }
CandPhraseTags ==
  { Join(<< S_red, S_cat >>), Join(<< S_red, S_cats >>),
    Join(<< S_red, S_box >>), Join(<< S_red, S_boxes >>),
    Join(<< S_red, S_cat, S_box >>), S_cat }

CandItems ==
  [ tag : CandWordTags, score : 1..MaxScore, frequency : {1}, type : {"word"} ]
    \cup
  [ tag : CandPhraseTags, score : 1..MaxScore, frequency : {1}, type : {"phrase"} ]

\* what generateTags hands over: no tag twice within a kind, score
\* descending, and at equal score the words before the phrases
IsCandidateList(ts) ==
  /\ \A i, j \in 1..Len(ts) :
       i < j => ~(ts[i].tag = ts[j].tag /\ ts[i].type = ts[j].type)
  /\ \A i \in 1..(Len(ts) - 1) :
       /\ ts[i].score >= ts[i + 1].score
       /\ ts[i].score = ts[i + 1].score =>
            ~(ts[i].type = "phrase" /\ ts[i + 1].type = "word")

\* the candidate lists of n tags: every prefix of a candidate list is one
RECURSIVE CandidateListsOfLen(_)
CandidateListsOfLen(n) ==
  IF n = 0 THEN { << >> }
  ELSE { ts \in { Append(init, c) : init \in CandidateListsOfLen(n - 1),
                                    c \in CandItems } : IsCandidateList(ts) }

CandidateLists == UNION { CandidateListsOfLen(n) : n \in 0..MaxCands }

-----------------------------------------------------------------------------
(* Inflection engine (pluralize.ts).  The module keeps five tables: the two *)
(* irregular maps, the two rule lists and the uncountable set.  A pattern   *)
(* /(G)R$/i is the record of the alternatives of its group and of what      *)
(* follows the group, in lower case; the words of the model are made of     *)
(* ASCII letters, so a negated character class ranges over the letters.     *)

UpperOf ==
  [ c \in LowerLetters |->
      CASE c = "a" -> "A" [] c = "b" -> "B" [] c = "c" -> "C" [] c = "d" -> "D"
        [] c = "e" -> "E" [] c = "f" -> "F" [] c = "g" -> "G" [] c = "h" -> "H"
        [] c = "i" -> "I" [] c = "j" -> "J" [] c = "k" -> "K" [] c = "l" -> "L"
        [] c = "m" -> "M" [] c = "n" -> "N" [] c = "o" -> "O" [] c = "p" -> "P"
        [] c = "q" -> "Q" [] c = "r" -> "R" [] c = "s" -> "S" [] c = "t" -> "T"
        [] c = "u" -> "U" [] c = "v" -> "V" [] c = "w" -> "W" [] c = "x" -> "X"
        [] c = "y" -> "Y" [] c = "z" -> "Z" ]

\* String.prototype.toUpperCase
ToUpperCase(s) ==
  [ i \in 1..Len(s) |-> IF s[i] \in LowerLetters THEN UpperOf[s[i]] ELSE s[i] ]

\* String.prototype.charAt(0)
CharAt0(s) == IF Len(s) = 0 THEN << >> ELSE << s[1] >>
\* String.prototype.substr(1)
Substr1(s) == SubSeq(s, 2, Len(s))

\* restoreCase(word, token)
restoreCase(w, token) ==
  IF w = token THEN token
  ELSE IF w = ToLowerCase(w) THEN ToLowerCase(token)
  ELSE IF w = ToUpperCase(w) THEN ToUpperCase(token)
  ELSE IF << w[1] >> = ToUpperCase(<< w[1] >>)
  THEN ToUpperCase(CharAt0(token)) \o ToLowerCase(Substr1(token))
  ELSE ToLowerCase(token)

DigitValue ==
  [ c \in Digits |->
      CASE c = "0" -> 0 [] c = "1" -> 1 [] c = "2" -> 2 [] c = "3" -> 3
        [] c = "4" -> 4 [] c = "5" -> 5 [] c = "6" -> 6 [] c = "7" -> 7
        [] c = "8" -> 8 [] c = "9" -> 9 ]

DigitChar == [ n \in 0..9 |-> CHOOSE c \in Digits : DigitValue[c] = n ]

\* a number converted to a string, for an offset below 100
Decimal(n) ==
  IF n < 10 THEN << DigitChar[n] >> ELSE << DigitChar[n \div 10], DigitChar[n % 10] >>

\* args[index] || ''
ArgOrEmpty(args, index) ==
  IF index + 1 <= Len(args) THEN args[index + 1] ELSE << >>

RECURSIVE interpolateFrom(_, _, _)
interpolateFrom(str, i, args) ==
  IF i > Len(str) THEN << >>
  ELSE IF str[i] = "$" /\ i + 1 <= Len(str) /\ str[i + 1] \in Digits
  THEN IF i + 2 <= Len(str) /\ str[i + 2] \in Digits
       THEN ArgOrEmpty(args, 10 * DigitValue[str[i + 1]] + DigitValue[str[i + 2]])
              \o interpolateFrom(str, i + 3, args)
       ELSE ArgOrEmpty(args, DigitValue[str[i + 1]])
              \o interpolateFrom(str, i + 2, args)
  ELSE << str[i] >> \o interpolateFrom(str, i + 1, args)

\* interpolate(str, args): str.replace(/\$(\d{1,2})/g, ...)
interpolate(str, args) == interpolateFrom(str, 1, args)

\* patterns without and with a capturing group
Pat(rest) == [ group |-> << >>, rest |-> rest ]
PatG(group, rest) == [ group |-> << group >>, rest |-> rest ]

Cat(A, B) == { a \o b : a \in A, b \in B }
\* the character class [^...]
NotIn(cs) == { << c >> : c \in LowerLetters \ cs }
\* the character class [...]
OneOf(cs) == { << c >> : c \in cs }

\* the lower-case strings the pattern matches up to the end of the word
Lang(p) == IF Len(p.group) = 0 THEN p.rest ELSE Cat(p.group[1], p.rest)

MatchesAt(p, w, i) == ToLowerCase(SubSeq(w, i, Len(w))) \in Lang(p)

\* RegExp.prototype.test
test(p, w) == \E i \in 1..(Len(w) + 1) : MatchesAt(p, w, i)

\* the position of the leftmost match
MatchStart(p, w) ==
  CHOOSE i \in 1..(Len(w) + 1) :
    /\ MatchesAt(p, w, i)
    /\ \A j \in 1..(i - 1) : ~MatchesAt(p, w, j)

\* the text of the capturing groups of the match
Captured(p, w, start) ==
  IF Len(p.group) = 0 THEN << >>
  ELSE LET suffix == SubSeq(w, start, Len(w))
           g == CHOOSE a \in p.group[1] :
                  \E t \in p.rest : a \o t = ToLowerCase(suffix)
       IN << SubSeq(suffix, 1, Len(g)) >>

\* what a call that throws a TypeError yields
TypeError == << "TypeError" >>

\* replace(word, rule).  The callback's parameter named index is the second
\* argument of the replacer: the offset of the match when the pattern has no
\* group (the only patterns here that match the empty string).  An empty
\* match at offset 0 reads word[-1], which is undefined, and restoreCase
\* throws on it.
replace(w, rule) ==
  LET start == MatchStart(rule[1], w)
      match == SubSeq(w, start, Len(w))
      offset == start - 1
      args == << match >> \o Captured(rule[1], w, start)
                \o << IF offset = 0 THEN << >> ELSE Decimal(offset), w >>
      replaced == interpolate(rule[2], args)
  IN SubSeq(w, 1, start - 1) \o
       (IF match = << >>
        THEN IF offset = 0 THEN TypeError ELSE restoreCase(<< w[offset] >>, replaced)
        ELSE restoreCase(match, replaced))

\* the scan of sanitizeWord from the earliest registered rule to the latest
sanitizeFromEarliest(w, rules, len) ==
  LET matching == { i \in 1..len : test(rules[i][1], w) }
  IN IF matching = {} THEN w
     ELSE replace(w, rules[CHOOSE i \in matching : \A j \in matching : i <= j])

RECURSIVE sanitizeFrom(_, _, _)
sanitizeFrom(w, rules, len) ==
  IF len = 0 THEN w
  ELSE IF test(rules[len][1], w) THEN replace(w, rules[len])
  ELSE sanitizeFrom(w, rules, len - 1)

\* sanitizeWord(token, word, rules)
sanitizeWord(token, w, rules) ==
  IF Len(token) = 0 \/ token \in uncountables THEN w
  ELSE sanitizeFrom(w, rules, Len(rules))

\* replaceWord consulting the rules before the two maps
replaceWordRulesFirst(replaceMap, keepMap, rules, w) ==
  LET token == ToLowerCase(w)
      byRule == sanitizeWord(token, w, rules)
  IN IF byRule # w THEN byRule
     ELSE IF MapHas(keepMap, token) THEN restoreCase(w, token)
     ELSE IF MapHas(replaceMap, token) THEN restoreCase(w, MapGet(replaceMap, token))
     ELSE w

\* replaceWord(replaceMap, keepMap, rules)(word)
replaceWord(replaceMap, keepMap, rules, w) ==
  LET token == ToLowerCase(w)
  IN IF MapHas(keepMap, token) THEN restoreCase(w, token)
     ELSE IF MapHas(replaceMap, token) THEN restoreCase(w, MapGet(replaceMap, token))
     ELSE sanitizeWord(token, w, rules)

\* pluralize.plural = replaceWord(irregularSingles, irregularPlurals, pluralRules)
plural(w) == replaceWord(irregularSingles, irregularPlurals, pluralRules, w)

\* pluralize.singular = replaceWord(irregularPlurals, irregularSingles, singularRules)
singular(w) == replaceWord(irregularPlurals, irregularSingles, singularRules, w)

\* pluralize.addIrregularRule(single, plural) on the pair of maps
addIrregularRule(maps, single, plur) ==
  [ singles |-> MapSet(maps.singles, ToLowerCase(single), ToLowerCase(plur)),
    plurals |-> MapSet(maps.plurals, ToLowerCase(plur), ToLowerCase(single)) ]

RECURSIVE addIrregularRules(_, _, _)
addIrregularRules(maps, pairs, i) ==
  IF i > Len(pairs) THEN maps
  ELSE LET next == addIrregularRule(maps, pairs[i][1], pairs[i][2])
       IN \* the test holds; it has TLC evaluate the maps at every step
          IF Len(next.singles) > 0 THEN addIrregularRules(next, pairs, i + 1) ELSE next

\* const irregularRules: the [single, plural] pairs in source order
irregularRules ==
  << << <<"I">>, <<"w","e">> >>,
     << <<"m","e">>, <<"u","s">> >>,
     << <<"h","e">>, <<"t","h","e","y">> >>,
     << <<"s","h","e">>, <<"t","h","e","y">> >>,
     << <<"t","h","e","m">>, <<"t","h","e","m">> >>,
     << <<"m","y","s","e","l","f">>, <<"o","u","r","s","e","l","v","e","s">> >>,
     << <<"y","o","u","r","s","e","l","f">>, <<"y","o","u","r","s","e","l","v","e","s">> >>,
     << <<"i","t","s","e","l","f">>, <<"t","h","e","m","s","e","l","v","e","s">> >>,
     << <<"h","e","r","s","e","l","f">>, <<"t","h","e","m","s","e","l","v","e","s">> >>,
     << <<"h","i","m","s","e","l","f">>, <<"t","h","e","m","s","e","l","v","e","s">> >>,
     << <<"t","h","e","m","s","e","l","f">>, <<"t","h","e","m","s","e","l","v","e","s">> >>,
     << <<"i","s">>, <<"a","r","e">> >>,
     << <<"w","a","s">>, <<"w","e","r","e">> >>,
     << <<"h","a","s">>, <<"h","a","v","e">> >>,
     << <<"t","h","i","s">>, <<"t","h","e","s","e">> >>,
     << <<"t","h","a","t">>, <<"t","h","o","s","e">> >>,
     << <<"m","y">>, <<"o","u","r">> >>,
     << <<"i","t","s">>, <<"t","h","e","i","r">> >>,
     << <<"h","i","s">>, <<"t","h","e","i","r">> >>,
     << <<"h","e","r">>, <<"t","h","e","i","r">> >>,
     << <<"e","c","h","o">>, <<"e","c","h","o","e","s">> >>,
     << <<"d","i","n","g","o">>, <<"d","i","n","g","o","e","s">> >>,
     << <<"v","o","l","c","a","n","o">>, <<"v","o","l","c","a","n","o","e","s">> >>,
     << <<"t","o","r","n","a","d","o">>, <<"t","o","r","n","a","d","o","e","s">> >>,
     << <<"t","o","r","p","e","d","o">>, <<"t","o","r","p","e","d","o","e","s">> >>,
     << <<"g","e","n","u","s">>, <<"g","e","n","e","r","a">> >>,
     << <<"v","i","s","c","u","s">>, <<"v","i","s","c","e","r","a">> >>,
     << <<"s","t","i","g","m","a">>, <<"s","t","i","g","m","a","t","a">> >>,
     << <<"s","t","o","m","a">>, <<"s","t","o","m","a","t","a">> >>,
     << <<"d","o","g","m","a">>, <<"d","o","g","m","a","t","a">> >>,
     << <<"l","e","m","m","a">>, <<"l","e","m","m","a","t","a">> >>,
     << <<"s","c","h","e","m","a">>, <<"s","c","h","e","m","a","t","a">> >>,
     << <<"a","n","a","t","h","e","m","a">>, <<"a","n","a","t","h","e","m","a","t","a">> >>,
     << <<"o","x">>, <<"o","x","e","n">> >>,
     << <<"a","x","e">>, <<"a","x","e","s">> >>,
     << <<"d","i","e">>, <<"d","i","c","e">> >>,
     << <<"y","e","s">>, <<"y","e","s","e","s">> >>,
     << <<"f","o","o","t">>, <<"f","e","e","t">> >>,
     << <<"e","a","v","e">>, <<"e","a","v","e","s">> >>,
     << <<"g","o","o","s","e">>, <<"g","e","e","s","e">> >>,
     << <<"t","o","o","t","h">>, <<"t","e","e","t","h">> >>,
     << <<"q","u","i","z">>, <<"q","u","i","z","z","e","s">> >>,
     << <<"h","u","m","a","n">>, <<"h","u","m","a","n","s">> >>,
     << <<"p","r","o","o","f">>, <<"p","r","o","o","f","s">> >>,
     << <<"c","a","r","v","e">>, <<"c","a","r","v","e","s">> >>,
     << <<"v","a","l","v","e">>, <<"v","a","l","v","e","s">> >>,
     << <<"l","o","o","e","y">>, <<"l","o","o","i","e","s">> >>,
     << <<"t","h","i","e","f">>, <<"t","h","i","e","v","e","s">> >>,
     << <<"g","r","o","o","v","e">>, <<"g","r","o","o","v","e","s">> >>,
     << <<"p","i","c","k","a","x","e">>, <<"p","i","c","k","a","x","e","s">> >>,
     << <<"p","a","s","s","e","r","b","y">>, <<"p","a","s","s","e","r","s","b","y">> >>,
     << <<"c","a","n","v","a","s">>, <<"c","a","n","v","a","s","e","s">> >> >>

\* the strings of the array handed to addUncountableRule, in source order
uncountableWords ==
  << <<"a","d","u","l","t","h","o","o","d">>,
     <<"a","d","v","i","c","e">>,
     <<"a","g","e","n","d","a">>,
     <<"a","i","d">>,
     <<"a","i","r","c","r","a","f","t">>,
     <<"a","l","c","o","h","o","l">>,
     <<"a","m","m","o">>,
     <<"a","n","a","l","y","t","i","c","s">>,
     <<"a","n","i","m","e">>,
     <<"a","t","h","l","e","t","i","c","s">>,
     <<"a","u","d","i","o">>,
     <<"b","i","s","o","n">>,
     <<"b","l","o","o","d">>,
     <<"b","r","e","a","m">>,
     <<"b","u","f","f","a","l","o">>,
     <<"b","u","t","t","e","r">>,
     <<"c","a","r","p">>,
     <<"c","a","s","h">>,
     <<"c","h","a","s","s","i","s">>,
     <<"c","h","e","s","s">>,
     <<"c","l","o","t","h","i","n","g">>,
     <<"c","o","d">>,
     <<"c","o","m","m","e","r","c","e">>,
     <<"c","o","o","p","e","r","a","t","i","o","n">>,
     <<"c","o","r","p","s">>,
     <<"d","e","b","r","i","s">>,
     <<"d","i","a","b","e","t","e","s">>,
     <<"d","i","g","e","s","t","i","o","n">>,
     <<"e","l","k">>,
     <<"e","n","e","r","g","y">>,
     <<"e","q","u","i","p","m","e","n","t">>,
     <<"e","x","c","r","e","t","i","o","n">>,
     <<"e","x","p","e","r","t","i","s","e">>,
     <<"f","i","r","m","w","a","r","e">>,
     <<"f","l","o","u","n","d","e","r">>,
     <<"f","u","n">>,
     <<"g","a","l","l","o","w","s">>,
     <<"g","a","r","b","a","g","e">>,
     <<"g","r","a","f","f","i","t","i">>,
     <<"h","a","r","d","w","a","r","e">>,
     <<"h","e","a","d","q","u","a","r","t","e","r","s">>,
     <<"h","e","a","l","t","h">>,
     <<"h","e","r","p","e","s">>,
     <<"h","i","g","h","j","i","n","k","s">>,
     <<"h","o","m","e","w","o","r","k">>,
     <<"h","o","u","s","e","w","o","r","k">>,
     <<"i","n","f","o","r","m","a","t","i","o","n">>,
     <<"j","e","a","n","s">>,
     <<"j","u","s","t","i","c","e">>,
     <<"k","u","d","o","s">>,
     <<"l","a","b","o","u","r">>,
     <<"l","i","t","e","r","a","t","u","r","e">>,
     <<"m","a","c","h","i","n","e","r","y">>,
     <<"m","a","c","k","e","r","e","l">>,
     <<"m","a","i","l">>,
     <<"m","e","d","i","a">>,
     <<"m","e","w","s">>,
     <<"m","o","o","s","e">>,
     <<"m","u","s","i","c">>,
     <<"m","u","d">>,
     <<"m","a","n","g","a">>,
     <<"n","e","w","s">>,
     <<"o","n","l","y">>,
     <<"p","e","r","s","o","n","n","e","l">>,
     <<"p","i","k","e">>,
     <<"p","l","a","n","k","t","o","n">>,
     <<"p","l","i","e","r","s">>,
     <<"p","o","l","i","c","e">>,
     <<"p","o","l","l","u","t","i","o","n">>,
     <<"p","r","e","m","i","s","e","s">>,
     <<"r","a","i","n">>,
     <<"r","e","s","e","a","r","c","h">>,
     <<"r","i","c","e">>,
     <<"s","a","l","m","o","n">>,
     <<"s","c","i","s","s","o","r","s">>,
     <<"s","e","r","i","e","s">>,
     <<"s","e","w","a","g","e">>,
     <<"s","h","a","m","b","l","e","s">>,
     <<"s","h","r","i","m","p">>,
     <<"s","o","f","t","w","a","r","e">>,
     <<"s","t","a","f","f">>,
     <<"s","w","i","n","e">>,
     <<"t","e","n","n","i","s">>,
     <<"t","r","a","f","f","i","c">>,
     <<"t","r","a","n","s","p","o","r","t","a","t","i","o","n">>,
     <<"t","r","o","u","t">>,
     <<"t","u","n","a">>,
     <<"w","e","a","l","t","h">>,
     <<"w","e","l","f","a","r","e">>,
     <<"w","h","i","t","i","n","g">>,
     <<"w","i","l","d","e","b","e","e","s","t">>,
     <<"w","i","l","d","l","i","f","e">>,
     <<"y","o","u">> >>

Vowels == { "a", "e", "i", "o", "u" }

\* const pluralizationRules: of the rules of the source, in source order,
\* those that are the first to match a word of InflectInputs below that
\* reaches the rules
pluralizationRules ==
  << \* [/s?$/i, 's']
     << Pat({ << >>, <<"s">> }), <<"s">> >>,
     \* [/(alias|[^aou]us|t[lm]as|gas|ris)$/i, '$1es']
     << PatG({ <<"a","l","i","a","s">>, <<"t","l","a","s">>, <<"t","m","a","s">>,
               <<"g","a","s">>, <<"r","i","s">> }
               \cup Cat(NotIn({"a","o","u"}), { <<"u","s">> }),
             { << >> }),
        <<"$","1","e","s">> >>,
     \* [/([^aeiouy]|qu)y$/i, '$1ies']
     << PatG(NotIn(Vowels \cup {"y"}) \cup { <<"q","u">> }, { <<"y">> }),
        <<"$","1","i","e","s">> >>,
     \* [/(x|ch|ss|sh|zz)$/i, '$1es']
     << PatG({ <<"x">>, <<"c","h">>, <<"s","s">>, <<"s","h">>, <<"z","z">> }, { << >> }),
        <<"$","1","e","s">> >>,
     \* [/m[ae]n$/i, 'men']
     << Pat({ <<"m","a","n">>, <<"m","e","n">> }), <<"m","e","n">> >> >>

\* const singularizationRules, chosen the same way
singularizationRules ==
  << \* [/s$/i, '']
     << Pat({ <<"s">> }), << >> >>,
     \* [/ies$/i, 'y']
     << Pat({ <<"i","e","s">> }), <<"y">> >>,
     \* [/(x|ch|ss|sh|zz|tto|go|cho|alias|[^aou]us|t[lm]as|gas|(?:her|at|gr)o|[aeiou]ris)(?:es)?$/i, '$1']
     << PatG({ <<"x">>, <<"c","h">>, <<"s","s">>, <<"s","h">>, <<"z","z">>,
               <<"t","t","o">>, <<"g","o">>, <<"c","h","o">>,
               <<"a","l","i","a","s">>, <<"t","l","a","s">>, <<"t","m","a","s">>,
               <<"g","a","s">>, <<"h","e","r","o">>, <<"a","t","o">>, <<"g","r","o">> }
               \cup Cat(NotIn({"a","o","u"}), { <<"u","s">> })
               \cup Cat(OneOf(Vowels), { <<"r","i","s">> }),
             { << >>, <<"e","s">> }),
        <<"$","1">> >>,
     \* [/men$/i, 'man']
     << Pat({ <<"m","e","n">> }), <<"m","a","n">> >> >>

\* the regular expressions of the array handed to addUncountableRule, in
\* source order (all but /pok[eé]mon$/i)
uncountablePatterns ==
  << Pat(Cat(NotIn(Vowels), { <<"e","s","e">> })),         \* /[^aeiou]ese$/i
     Pat({ <<"d","e","e","r">> }),                         \* /deer$/i
     Pat({ <<"f","i","s","h">> }),                         \* /fish$/i
     Pat({ <<"m","e","a","s","l","e","s">> }),             \* /measles$/i
     Pat(Cat({ <<"o">> }, Cat(OneOf({"i","u"}), { <<"s">> }))),  \* /o[iu]s$/i
     Pat({ <<"p","o","x">> }),                             \* /pox$/i
     Pat({ <<"s","h","e","e","p">> }) >>                   \* /sheep$/i

\* addUncountableRule(word) for a regular expression: addPluralRule(word, '$0')
\* and addSingularRule(word, '$0')
UncountableRules == [ i \in 1..Len(uncountablePatterns) |-> << uncountablePatterns[i], <<"$","0">> >> ]

\* the tables once the module's top-level code has run
InitialIrregulars ==
  addIrregularRules([ singles |-> << >>, plurals |-> << >> ], irregularRules, 1)
InitialPluralRules == pluralizationRules \o UncountableRules
InitialSingularRules == singularizationRules \o UncountableRules
InitialUncountables == { ToLowerCase(uncountableWords[i]) : i \in 1..Len(uncountableWords) }

ModuleInitialised ==
  /\ irregularSingles = InitialIrregulars.singles
  /\ irregularPlurals = InitialIrregulars.plurals
  /\ pluralRules = InitialPluralRules
  /\ singularRules = InitialSingularRules
  /\ uncountables = InitialUncountables

NoInflection ==
  /\ arg = << >>
  /\ returned = << >>

NoContainment ==
  /\ first = << >>
  /\ second = << >>
  /\ contains = << >>

-----------------------------------------------------------------------------
(* The state machine *)

NoCall ==
  /\ words = << >>
  /\ wordResults = << >>
  /\ phraseResults = << >>
  /\ sortedTags = << >>
  /\ componentWordsToRemove = {}
  /\ phrasesToRemove = {}
  /\ passBRemoved = {}
  /\ result = << >>

\* a call generateTags(text, options) on a freshly constructed service
Init ==
  /\ stopWords = StopWordList
  /\ text \in Texts
  /\ options \in OptionSets
  /\ pc = "called"
  /\ memo = << >>
  /\ NoCall
  /\ ModuleInitialised
  /\ NoInflection
  /\ NoContainment

\* a freshly constructed service, before any call
InitCalls ==
  /\ stopWords = StopWordList
  /\ text = << >>
  /\ options = DefaultOptions
  /\ pc = "idle"
  /\ memo = << >>
  /\ NoCall
  /\ ModuleInitialised
  /\ NoInflection
  /\ NoContainment

\* generateTags at its call of filterComponentWords
InitFilter ==
  /\ stopWords = StopWordList
  /\ text = << >>
  /\ options = DefaultOptions
  /\ pc = "combined"
  /\ memo = << >>
  /\ sortedTags \in CandidateLists
  /\ words = << >>
  /\ wordResults = SelectSeq(sortedTags, LAMBDA t : t.type = "word")
  /\ phraseResults = SelectSeq(sortedTags, LAMBDA t : t.type = "phrase")
  /\ componentWordsToRemove = {}
  /\ phrasesToRemove = {}
  /\ passBRemoved = {}
  /\ result = << >>
  /\ ModuleInitialised
  /\ NoInflection
  /\ NoContainment

Call(t, o) ==
  /\ pc = "idle"
  /\ text' = t
  /\ options' = o
  /\ pc' = "called"
  /\ UNCHANGED << stopWords, words, wordResults, phraseResults, sortedTags,
                  componentWordsToRemove, phrasesToRemove, passBRemoved,
                  result, memo >>
  /\ UNCHANGED << tables, inflectVars, containVars >>

\* Preprocess adding the words it has seen to the stop words
PreprocessRemembering ==
  /\ pc = "called"
  /\ words' = preprocessText(text, options.caseSensitive, stopWords)
  /\ stopWords' = stopWords \cup Range(words')
  /\ pc' = "preprocessed"
  /\ UNCHANGED << text, options, wordResults, phraseResults,
                  sortedTags, componentWordsToRemove, phrasesToRemove,
                  passBRemoved, result, memo >>
  /\ UNCHANGED << tables, inflectVars, containVars >>

Preprocess ==
  /\ pc = "called"
  /\ words' = preprocessText(text, options.caseSensitive, stopWords)
  /\ pc' = "preprocessed"
  /\ UNCHANGED << stopWords, text, options, wordResults, phraseResults,
                  sortedTags, componentWordsToRemove, phrasesToRemove,
                  passBRemoved, result, memo >>
  /\ UNCHANGED << tables, inflectVars, containVars >>

\* WordTags handing over every word candidate, the cut left to after the filter
WordTagsUncapped ==
  /\ pc = "preprocessed"
  /\ wordResults' = generateWordTags(words, options.minWordLength,
                                     options.minFrequency, Len(words))
  /\ pc' = "wordTags"
  /\ UNCHANGED << stopWords, text, options, words, phraseResults, sortedTags,
                  componentWordsToRemove, phrasesToRemove, passBRemoved,
                  result, memo >>
  /\ UNCHANGED << tables, inflectVars, containVars >>

WordTags ==
  /\ pc = "preprocessed"
  /\ wordResults' = generateWordTags(words, options.minWordLength,
                                     options.minFrequency, options.maxTags)
  /\ pc' = "wordTags"
  /\ UNCHANGED << stopWords, text, options, words, phraseResults, sortedTags,
                  componentWordsToRemove, phrasesToRemove, passBRemoved,
                  result, memo >>
  /\ UNCHANGED << tables, inflectVars, containVars >>

\* PhraseTags generating phrases whatever includeNgrams says
PhraseTagsAlways ==
  /\ pc = "wordTags"
  /\ phraseResults' =
       generatePhraseTags(words, options.ngramSizes, options.minNgramSize,
                          options.maxNgramSize, options.minFrequency,
                          options.maxTags)
  /\ pc' = "phraseTags"
  /\ UNCHANGED << stopWords, text, options, words, wordResults, sortedTags,
                  componentWordsToRemove, phrasesToRemove, passBRemoved,
                  result, memo >>
  /\ UNCHANGED << tables, inflectVars, containVars >>

PhraseTags ==
  /\ pc = "wordTags"
  /\ phraseResults' =
       IF options.includeNgrams
       THEN generatePhraseTags(words, options.ngramSizes, options.minNgramSize,
                               options.maxNgramSize, options.minFrequency,
                               options.maxTags)
       ELSE << >>
  /\ pc' = "phraseTags"
  /\ UNCHANGED << stopWords, text, options, words, wordResults, sortedTags,
                  componentWordsToRemove, phrasesToRemove, passBRemoved,
                  result, memo >>
  /\ UNCHANGED << tables, inflectVars, containVars >>

\* Combine without the two sorts
CombineUnsorted ==
  /\ pc = "phraseTags"
  /\ sortedTags' = wordResults \o phraseResults
  /\ componentWordsToRemove' = {}
  /\ phrasesToRemove' = {}
  /\ passBRemoved' = {}
  /\ pc' = "combined"
  /\ UNCHANGED << stopWords, text, options, words, wordResults, phraseResults,
                  result, memo >>
  /\ UNCHANGED << tables, inflectVars, containVars >>

\* allTags.sort(...) in generateTags, then [...tags].sort(...) and the empty
\* sets at the head of filterComponentWords
Combine ==
  /\ pc = "phraseTags"
  /\ sortedTags' = SortByScoreDesc(SortByScoreDesc(wordResults \o phraseResults))
  /\ componentWordsToRemove' = {}
  /\ phrasesToRemove' = {}
  /\ passBRemoved' = {}
  /\ pc' = "combined"
  /\ UNCHANGED << stopWords, text, options, words, wordResults, phraseResults,
                  result, memo >>
  /\ UNCHANGED << tables, inflectVars, containVars >>

PassAB ==
  /\ pc = "combined"
  /\ LET marked == identifyRedundantTags(sortedTags, componentWordsToRemove,
                                         phrasesToRemove)
     IN  /\ componentWordsToRemove' = marked.componentWordsToRemove
         /\ phrasesToRemove' = marked.phrasesToRemove
         /\ passBRemoved' = marked.phrasesToRemove
  /\ pc' = "identified"
  /\ UNCHANGED << stopWords, text, options, words, wordResults, phraseResults,
                  sortedTags, result, memo >>
  /\ UNCHANGED << tables, inflectVars, containVars >>

PassC ==
  /\ pc = "identified"
  /\ phrasesToRemove' = groupSingularPluralForms(sortedTags, phrasesToRemove)
  /\ pc' = "grouped"
  /\ UNCHANGED << stopWords, text, options, words, wordResults, phraseResults,
                  sortedTags, componentWordsToRemove, passBRemoved, result,
                  memo >>
  /\ UNCHANGED << tables, inflectVars, containVars >>

Emit ==
  /\ pc = "grouped"
  /\ result' = FinalFilter(sortedTags, componentWordsToRemove, phrasesToRemove)
  /\ pc' = "done"
  /\ UNCHANGED << stopWords, text, options, words, wordResults, phraseResults,
                  sortedTags, componentWordsToRemove, phrasesToRemove,
                  passBRemoved, memo >>
  /\ UNCHANGED << tables, inflectVars, containVars >>

\* the caller takes the list; the call's locals are gone
Return ==
  /\ pc = "done"
  /\ memo' = IF memo = << >>
             THEN << [ text |-> text, options |-> options, result |-> result ] >>
             ELSE memo
  /\ pc' = "idle"
  /\ words' = << >>
  /\ wordResults' = << >>
  /\ phraseResults' = << >>
  /\ sortedTags' = << >>
  /\ componentWordsToRemove' = {}
  /\ phrasesToRemove' = {}
  /\ passBRemoved' = {}
  /\ result' = << >>
  /\ UNCHANGED << stopWords, text, options >>
  /\ UNCHANGED << tables, inflectVars, containVars >>
Next ==
  \/ Preprocess
  \/ WordTags
  \/ PhraseTags
  \/ Combine
  \/ PassAB
  \/ PassC
  \/ Emit

NextCalls ==
  \/ \E t \in CallTexts, o \in CallOptions : Call(t, o)
  \/ Preprocess
  \/ WordTags
  \/ PhraseTags
  \/ Combine
  \/ PassAB
  \/ PassC
  \/ Emit
  \/ Return

NextFilter ==
  \/ PassAB
  \/ PassC
  \/ Emit

Spec == Init /\ [][Next]_vars
SpecCalls == InitCalls /\ [][NextCalls]_vars
SpecFilter == InitFilter /\ [][NextFilter]_vars

-----------------------------------------------------------------------------
(* The inflection engine as a state machine: after the module's             *)
(* initialisation a client registers rules and calls plural and singular,   *)
(* any number of times in any order.                                        *)

MaxAddedRules == 1

S_ox    == <<"o","x">>
S_feet  == <<"f","e","e","t">>
S_sky   == <<"s","k","y">>
S_skies == <<"s","k","i","e","s">>
S_bus   == <<"b","u","s">>
S_buses == <<"b","u","s","e","s">>
S_man   == <<"m","a","n">>
S_men   == <<"m","e","n">>
S_fish  == <<"f","i","s","h">>
S_sheep == <<"s","h","e","e","p">>
S_advice == <<"a","d","v","i","c","e">>
S_news  == <<"n","e","w","s">>
S_they  == <<"t","h","e","y">>

IrregularWords ==
  UNION { { ToLowerCase(irregularRules[i][1]), ToLowerCase(irregularRules[i][2]) } :
            i \in 1..Len(irregularRules) }

RegularWords ==
  { << >>, S_cat, S_cats, S_box, S_boxes, S_sky, S_skies, S_bus, S_buses,
    S_man, S_men, S_fish, S_sheep, S_advice, S_news, S_information }

InflectWords == IrregularWords \cup RegularWords

\* the casings of a lower-case word: lower, upper, capitalized and two mixed
Casings(w) ==
  { w,
    ToUpperCase(w),
    ToUpperCase(CharAt0(w)) \o Substr1(w),
    CharAt0(w) \o ToUpperCase(Substr1(w)),
    ToUpperCase(CharAt0(w)) \o SubSeq(w, 2, Len(w) - 1)
      \o ToUpperCase(SubSeq(w, Max(2, Len(w)), Len(w))) }

InflectInputs == UNION { Casings(w) : w \in InflectWords }

\* what a client registers after the initialisation
RegisterableUncountables == { S_ox, S_feet, S_they }
\* addPluralRule(/([a-z])$/i, '$1z')
RegisterablePluralRule == << PatG(OneOf(LowerLetters), { << >> }), <<"$","1","z">> >>
\* addSingularRule(/[a-z]$/i, '')
RegisterableSingularRule == << Pat(OneOf(LowerLetters)), << >> >>

InitInflect ==
  /\ stopWords = StopWordList
  /\ text = << >>
  /\ options = DefaultOptions
  /\ pc = "loaded"
  /\ memo = << >>
  /\ NoCall
  /\ ModuleInitialised
  /\ NoInflection
  /\ NoContainment

serviceVars ==
  << stopWords, text, options, words, wordResults, phraseResults, sortedTags,
     componentWordsToRemove, phrasesToRemove, passBRemoved, result, memo >>

\* a plural(word) that also records the queried word as uncountable
CallPluralRecording(w) ==
  /\ pc = "loaded"
  /\ arg' = w
  /\ returned' = plural(w)
  /\ pc' = "plural"
  /\ uncountables' = uncountables \cup { ToLowerCase(w) }
  /\ UNCHANGED << serviceVars, containVars, irregularSingles, irregularPlurals, pluralRules,
                  singularRules >>

CallPlural(w) ==
  /\ pc = "loaded"
  /\ arg' = w
  /\ returned' = plural(w)
  /\ pc' = "plural"
  /\ UNCHANGED << serviceVars, containVars, tables >>

CallSingular(w) ==
  /\ pc = "loaded"
  /\ arg' = w
  /\ returned' = singular(w)
  /\ pc' = "singular"
  /\ UNCHANGED << serviceVars, containVars, tables >>

\* pluralize.addUncountableRule(word) for a string
AddUncountableRule(w) ==
  /\ pc = "loaded"
  /\ w \notin uncountables
  /\ uncountables' = uncountables \cup { ToLowerCase(w) }
  /\ pc' = "loaded"
  /\ arg' = << >>
  /\ returned' = << >>
  /\ UNCHANGED << serviceVars, containVars, irregularSingles, irregularPlurals, pluralRules,
                  singularRules >>

\* pluralize.addPluralRule(rule, replacement) for a regular expression
AddPluralRule(rule) ==
  /\ pc = "loaded"
  /\ Len(pluralRules) < Len(InitialPluralRules) + MaxAddedRules
  /\ pluralRules' = Append(pluralRules, rule)
  /\ pc' = "loaded"
  /\ arg' = << >>
  /\ returned' = << >>
  /\ UNCHANGED << serviceVars, containVars, irregularSingles, irregularPlurals, singularRules,
                  uncountables >>

\* pluralize.addSingularRule(rule, replacement) for a regular expression
AddSingularRule(rule) ==
  /\ pc = "loaded"
  /\ Len(singularRules) < Len(InitialSingularRules) + MaxAddedRules
  /\ singularRules' = Append(singularRules, rule)
  /\ pc' = "loaded"
  /\ arg' = << >>
  /\ returned' = << >>
  /\ UNCHANGED << serviceVars, containVars, irregularSingles, irregularPlurals, pluralRules,
                  uncountables >>

\* the caller takes the result
ReturnInflected ==
  /\ pc \in { "plural", "singular" }
  /\ pc' = "loaded"
  /\ arg' = << >>
  /\ returned' = << >>
  /\ UNCHANGED << serviceVars, containVars, tables >>

NextInflect ==
  \/ \E w \in InflectInputs : CallPlural(w)
  \/ \E w \in InflectInputs : CallSingular(w)
  \/ \E w \in RegisterableUncountables : AddUncountableRule(w)
  \/ AddPluralRule(RegisterablePluralRule)
  \/ AddSingularRule(RegisterableSingularRule)
  \/ ReturnInflected

SpecInflect == InitInflect /\ [][NextInflect]_vars

-----------------------------------------------------------------------------
(* The containment tests named isSubsequence *)

\* filter-by-type.pipe.ts, isSubsequence: the while loop from the 0-based
\* positions i (in subsequence) and j (in sequence) to its return value
RECURSIVE isSubsequenceLoop(_, _, _, _)
isSubsequenceLoop(subsequence, sequence, i, j) ==
  IF i < Len(subsequence) /\ j < Len(sequence)
  THEN isSubsequenceLoop(subsequence, sequence,
                         IF subsequence[i + 1] = sequence[j + 1] THEN i + 1 ELSE i,
                         j + 1)
  ELSE i = Len(subsequence)

\* filter-by-type.pipe.ts: export function isSubsequence(subsequence, sequence)
isSubsequenceExported(subsequence, sequence) ==
  isSubsequenceLoop(subsequence, sequence, 0, 0)

ContainTokens == { S_red, S_cat, S_box }
TokenArrays == SeqsUpTo(ContainTokens, MaxTokens)

InitContain ==
  /\ stopWords = StopWordList
  /\ text = << >>
  /\ options = DefaultOptions
  /\ pc = "test"
  /\ memo = << >>
  /\ NoCall
  /\ ModuleInitialised
  /\ NoInflection
  /\ first \in TokenArrays
  /\ second \in TokenArrays
  /\ contains = << >>

\* this.isSubsequence(phraseWords, otherWords) of the service
CallServiceIsSubsequence ==
  /\ pc = "test"
  /\ contains' = Some(isSubsequence(first, second))
  /\ pc' = "service"
  /\ UNCHANGED << serviceVars, tables, inflectVars, first, second >>

\* isSubsequence(phraseWords, otherWords) of filter-by-type.pipe.ts
CallExportedIsSubsequence ==
  /\ pc = "test"
  /\ contains' = Some(isSubsequenceExported(first, second))
  /\ pc' = "exported"
  /\ UNCHANGED << serviceVars, tables, inflectVars, first, second >>

NextContain ==
  \/ CallServiceIsSubsequence
  \/ CallExportedIsSubsequence

SpecContain == InitContain /\ [][NextContain]_vars

-----------------------------------------------------------------------------
(* Vocabulary of the properties *)

Tokens(t) == Split(t.tag)
Stem(t) == SubSeq(Tokens(t), 1, Len(Tokens(t)) - 1)
LastToken(t) == Tokens(t)[Len(Tokens(t))]

\* a occurs as a contiguous run inside b
ContiguousIn(a, b) ==
  \E k \in 1..(Len(b) - Len(a) + 1) : SubSeq(b, k, k + Len(a) - 1) = a

\* two tags with the same stem whose last words are the singular and the
\* plural of one word
SingularPluralPair(s, p) ==
  /\ Stem(s) = Stem(p)
  /\ LastToken(s) # LastToken(p)
  /\ plural(LastToken(s)) = LastToken(p)

Variants(a, b) == SingularPluralPair(a, b) \/ SingularPluralPair(b, a)

Phrases(ts) == { ts[i] : i \in { j \in 1..Len(ts) : ts[j].type = "phrase" } }
WordsOf(ts) == { ts[i] : i \in { j \in 1..Len(ts) : ts[j].type = "word" } }

Survives(t) == \E i \in 1..Len(result) : result[i] = t

\* the number of start positions of the token sequence ts in the stream ws
Occurrences(ts, ws) ==
  Cardinality({ k \in 1..(Len(ws) - Len(ts) + 1) :
                  SubSeq(ws, k, k + Len(ts) - 1) = ts })

-----------------------------------------------------------------------------
(* Properties *)

\* C1: in the output of the redundancy filter, no surviving phrase A is a
\* contiguous run inside another surviving phrase B with score(A) >= score(B),
\* ties included.
C1_NoContainedPhraseAtOrAbove ==
  pc = "done" =>
    \A a, b \in Phrases(result) :
      a # b => ~(ContiguousIn(Tokens(a), Tokens(b)) /\ a.score >= b.score)

C3_NoInflectionDuplicates ==
  pc = "done" =>
    \A a, b \in Phrases(result) :
      Len(Tokens(a)) >= 2 => ~Variants(a, b)

\* C4: of two candidate phrases that survive Pass B and are a singular/plural
\* pair, Pass C removes exactly one, the lower-scoring one, at any scores.
C4_PassCRemovesExactlyTheLower ==
  pc = "done" =>
    \A a, b \in Phrases(sortedTags) :
      ( /\ Variants(a, b)
        /\ a.tag \notin passBRemoved
        /\ b.tag \notin passBRemoved )
      => /\ Survives(a) # Survives(b)
         /\ a.score > b.score => Survives(a)

\* C5: every Word result has frequency >= minFrequency and a tag of at least
\* minWordLength characters.
C5_WordFilterRespected ==
  pc = "done" =>
    \A w \in WordsOf(result) :
      /\ w.frequency >= options.minFrequency
      /\ Len(w.tag) >= options.minWordLength

\* a word is returned while another token of the stream fell to a threshold
C5_Witness ==
  /\ pc = "done"
  /\ WordsOf(result) # {}
  /\ \E w \in Range(words) :
       \/ Occurrences(<< w >>, words) < options.minFrequency
       \/ Len(w) < options.minWordLength

\* the whitespace-separated words of the raw text
RawWords(txt) == WhitespaceRuns(txt, << >>)

\* the text is empty, or all its words are stop words or at most one
\* character long
NothingToTag ==
  \A w \in Range(RawWords(text)) : w \in StopWordList \/ Len(w) <= 1

\* C6: on the empty string, or a text of stop words and one-character words
\* only, generateTags returns the empty list, for every option set.
C6_EmptyInputEmptyOutput ==
  (pc = "done" /\ NothingToTag) => result = << >>

\* C7: a call with the text and options of an earlier call returns the list
\* the earlier call returned, whatever calls came in between.
C7_Deterministic ==
  ( /\ pc = "done"
    /\ memo # << >>
    /\ memo[1].text = text
    /\ memo[1].options = options )
  => result = memo[1].result

\* a second call with the arguments of the first has returned a list with
\* both a word and a phrase removed from it
C7_Witness ==
  /\ pc = "done"
  /\ memo # << >>
  /\ memo[1].text = text
  /\ memo[1].options = options
  /\ result # << >>
  /\ Len(result) < Len(sortedTags)

\* C8: no two results of the returned list have the same tag text.
C8_TagsDistinct ==
  pc = "done" =>
    \A i, j \in 1..Len(result) : i < j => result[i].tag # result[j].tag

\* a word and a one-token phrase of the same text were both candidates, and
\* one of them is returned
C8_Witness ==
  /\ pc = "done"
  /\ \E w \in WordsOf(sortedTags), p \in Phrases(sortedTags) :
       /\ w.tag = p.tag
       /\ Survives(w) \/ Survives(p)

\* C9: a Word result has a tag of exactly one token, a Phrase result a tag of
\* at least two, and no tag is the empty string, for every size option.
C9_KindMatchesTokenCount ==
  pc = "done" =>
    \A i \in 1..Len(result) :
      /\ result[i].tag # << >>
      /\ result[i].type = "word" => Len(Tokens(result[i])) = 1
      /\ result[i].type = "phrase" => Len(Tokens(result[i])) >= 2

\* C10: the frequency of a Phrase result (of two or more tokens) is the
\* number of start positions of its token sequence in the stream, that of a
\* Word result the number of occurrences of the token, for every size list.
C10_FrequencyIsOccurrenceCount ==
  pc = "done" =>
    \A i \in 1..Len(result) :
      /\ (result[i].type = "phrase" /\ Len(Tokens(result[i])) >= 2) =>
           result[i].frequency = Occurrences(Tokens(result[i]), words)
      /\ result[i].type = "word" =>
           result[i].frequency = Occurrences(<< result[i].tag >>, words)

\* the combined candidate list: the top words, then the top phrases
CombinedCandidates == wordResults \o phraseResults

PositionIn(ts, t) == CHOOSE i \in 1..Len(ts) : ts[i] = t

\* C11: the returned list is ordered by non-increasing score, and results of
\* equal score keep the relative order of the combined candidate list.
C11_OrderedStableByScore ==
  pc = "done" =>
    \A i, j \in 1..Len(result) :
      i < j =>
        /\ result[i].score >= result[j].score
        /\ result[i].score = result[j].score =>
             PositionIn(CombinedCandidates, result[i])
               < PositionIn(CombinedCandidates, result[j])

\* a returned list with two results of equal score and a third of another
C11_Witness ==
  /\ pc = "done"
  /\ \E i, j, k \in 1..Len(result) :
       /\ i < j
       /\ result[i].score = result[j].score
       /\ result[k].score # result[i].score

\* the distinct tokens of the stream that meet both thresholds
EligibleTokens ==
  { w \in Range(words) :
      /\ Len(w) >= options.minWordLength
      /\ Occurrences(<< w >>, words) >= options.minFrequency }

\* the scores of all eligible tokens, without the cap
UncappedWordScores ==
  calculateWordScores(
    filterWords(calculateWordFrequency(words), options.minWordLength,
                options.minFrequency),
    Len(words))

\* C12: with includeNgrams = false (and maxTags >= 0) the result holds no
\* Phrase result; it is the word candidates untouched by the redundancy
\* filter, which are min(maxTags, number of eligible tokens) distinct
\* eligible tokens, none scoring below an eligible token left out.  For
\* "the cat sat on the mat the cat ran across the mat" with minWordLength 3
\* and minFrequency 2 the result is "cat" and "mat", each of frequency 2,
\* scored over 6 tokens.
C12_WordsOnlyWithoutNgrams ==
  (pc = "done" /\ ~options.includeNgrams /\ options.maxTags >= 0) =>
    /\ Phrases(result) = {}
    /\ result = wordResults
    /\ { result[i].tag : i \in 1..Len(result) } \subseteq EligibleTokens
    /\ \A i, j \in 1..Len(result) : i < j => result[i].tag # result[j].tag
    /\ Len(result) = Min(options.maxTags, Cardinality(EligibleTokens))
    /\ \A i \in 1..Len(result) :
         /\ result[i].score = MapGet(UncappedWordScores, result[i].tag)
         /\ \A w \in EligibleTokens :
              w \notin { result[k].tag : k \in 1..Len(result) } =>
                MapGet(UncappedWordScores, w) <= result[i].score
    /\ (text = CatMatText /\ options.minWordLength = 3
          /\ options.minFrequency = 2) =>
         /\ Len(words) = 6
         /\ { << result[i].tag, result[i].frequency >> : i \in 1..Len(result) }
              = { << S_cat, 2 >>, << <<"m","a","t">>, 2 >> }
         /\ Len(result) = 2

\* with includeNgrams = false, the cap has cut an eligible token off a
\* non-empty result
C12_Witness ==
  /\ pc = "done"
  /\ ~options.includeNgrams
  /\ result # << >>
  /\ Len(result) < Cardinality(EligibleTokens)

\* C13: the output holds at most max(maxTags, 0) Word results and at most
\* max(maxTags, 0) Phrase results, a negative maxTags acting as 0.
C13_PerKindCap ==
  pc = "done" =>
    /\ Cardinality(WordsOf(result)) <= Max(options.maxTags, 0)
    /\ Cardinality(Phrases(result)) <= Max(options.maxTags, 0)

BothBoundsSupplied ==
  options.minNgramSize # Undefined /\ options.maxNgramSize # Undefined

\* the integers minNgramSize..maxNgramSize in ascending order
RangeSizes ==
  [ k \in 1..(options.maxNgramSize[1] - options.minNgramSize[1] + 1) |->
      options.minNgramSize[1] + k - 1 ]

\* the sizes the options resolve to
ResolvedSizes == IF BothBoundsSupplied THEN RangeSizes ELSE options.ngramSizes

\* C14: with both minNgramSize and maxNgramSize supplied the phrases are those
\* of the sizes min..max, whatever ngramSizes holds; with a bound missing
\* they are those of the ngramSizes list.
C14_SizeResolution ==
  (pc = "done" /\ options.includeNgrams) =>
    phraseResults =
      generatePhraseTags(words, ResolvedSizes, Undefined, Undefined,
                         options.minFrequency, options.maxTags)

\* a range was supplied together with a list naming another size, and a
\* phrase of a size of the range only is among the candidates
C14_Witness ==
  /\ pc = "done"
  /\ options.includeNgrams
  /\ BothBoundsSupplied
  /\ options.ngramSizes # RangeSizes
  /\ \E p \in Phrases(phraseResults) :
       /\ Len(Tokens(p)) \in Range(RangeSizes)
       /\ Len(Tokens(p)) \notin Range(options.ngramSizes)

EmptyRange ==
  BothBoundsSupplied /\ options.minNgramSize[1] > options.maxNgramSize[1]

\* C15: with minNgramSize > maxNgramSize no n-gram is extracted; the call
\* returns a list without Phrase results whose Word results are those of
\* the same call with includeNgrams = false.
C15_EmptyRangeNoPhrases ==
  (pc = "done" /\ options.includeNgrams /\ EmptyRange) =>
    /\ phraseResults = << >>
    /\ Phrases(result) = {}
    /\ result =
         filterComponentWords(
           SortByScoreDesc(generateWordTags(words, options.minWordLength,
                                            options.minFrequency,
                                            options.maxTags)))

\* a call with minNgramSize > maxNgramSize on a stream of two or more tokens
\* has returned words
C15_Witness ==
  /\ pc = "done"
  /\ options.includeNgrams
  /\ EmptyRange
  /\ Len(words) >= 2
  /\ result # << >>

\* the highest frequency among the eligible tokens
MaxEligibleFrequency ==
  CHOOSE m \in { Occurrences(<< w >>, words) : w \in EligibleTokens } :
    \A w \in EligibleTokens : Occurrences(<< w >>, words) <= m

\* the weighted sum of the three factors of a word result, for a given
\* length bonus
WordScoreWith(r, bonus) ==
  LET tf == (r.frequency * SCALE) \div MaxEligibleFrequency
      freqSignificance ==
        calculateFrequencySignificance(r.frequency, Len(words))
  IN  (tf * W_termFrequency + bonus * W_lengthBonus
         + freqSignificance * W_frequencySignificance) \div 100

\* C16 as stated: the length-bonus factor of a word of length L in its word
\* score is min(1, L / 10), linear and never above 1.
C16_LengthBonusLinearCapped ==
  pc = "done" =>
    \A r \in WordsOf(wordResults) :
      r.score = WordScoreWith(r, Min(SCALE, (Len(r.tag) * SCALE) \div 10))

\* C16 amended: the length-bonus factor of a word of length L in its word
\* score is log10(L); it is below 1 for L < 10, 1 at L = 10 and above 1 for
\* L > 10.
C16_LengthBonusLog10 ==
  pc = "done" =>
    \A r \in WordsOf(wordResults) :
      LET L == Len(r.tag)
      IN  /\ r.score = WordScoreWith(r, Log10Table[L])
          /\ L < 10 => Log10Table[L] < SCALE
          /\ L = 10 => Log10Table[L] = SCALE
          /\ L > 10 => Log10Table[L] > SCALE

\* a word of more than ten characters has been scored
C16_Witness ==
  /\ pc = "done"
  /\ \E r \in WordsOf(wordResults) : Len(r.tag) > 10

\* the n-grams extracted for the resolved sizes
NgramPool == extractNgrams(words, ResolvedSizes)

\* C17: an empty filtered-word set gives no word candidate, an empty n-gram
\* pool no phrase candidate, and no returned result has an error value
\* (the outcome of a maximum of nothing or of a division by zero) as score.
C17_NoNumericErrorValue ==
  pc = "done" =>
    /\ EligibleTokens = {} => wordResults = << >>
    /\ (options.includeNgrams /\ NgramPool = << >>) => phraseResults = << >>
    /\ \A i \in 1..Len(result) :
         result[i].score # NaN /\ result[i].score >= 0

\* a phrase none of whose tokens has a word score was scored on an empty
\* token stream and is returned
C17_Witness ==
  /\ pc = "done"
  /\ words = << >>
  /\ EligibleTokens = {}
  /\ \E p \in Phrases(result) : Range(Tokens(p)) \cap Range(words) = {}

\* C18: a Word candidate that reached the redundancy filter is absent from
\* the final output only if it is a token of a Phrase result of the final
\* output; a word whose containing phrases were all removed stays.
C18_OnlySurvivingPhrasesSubsume ==
  pc = "done" =>
    \A w \in WordsOf(sortedTags) :
      ~Survives(w) =>
        \E p \in Phrases(result) : w.tag \in Range(Tokens(p))

\* the pairs of the irregular table, lower-cased as addIrregularRule stores them
IrregularPairs ==
  { << ToLowerCase(irregularRules[i][1]), ToLowerCase(irregularRules[i][2]) >> :
      i \in 1..Len(irregularRules) }

\* the singular of the pair registered last with the plural p
LastSingleFor(p) ==
  LET last == CHOOSE i \in 1..Len(irregularRules) :
                /\ ToLowerCase(irregularRules[i][2]) = p
                /\ \A j \in (i + 1)..Len(irregularRules) :
                     ToLowerCase(irregularRules[j][2]) # p
  IN ToLowerCase(irregularRules[last][1])

\* C19 as stated: for every pair (s, p) of the irregular table and every
\* casing of the input, plural(s) is p and singular(p) is s, up to case
\* restoration, whatever rules and uncountable words have been registered.
C19_IrregularPairsBothDirections ==
  \A pr \in IrregularPairs :
    /\ (pc = "plural" /\ ToLowerCase(arg) = pr[1])
         => returned = restoreCase(arg, pr[2])
    /\ (pc = "singular" /\ ToLowerCase(arg) = pr[2])
         => returned = restoreCase(arg, pr[1])

\* C19 amended: for every pair (s, p) of the irregular table and every casing
\* of the input, plural(s) is p and singular(p) is the singular of the pair
\* registered last with the plural p, up to case restoration, whatever rules
\* and uncountable words have been registered.
C19_IrregularLastRegisteredWins ==
  \A pr \in IrregularPairs :
    /\ (pc = "plural" /\ ToLowerCase(arg) = pr[1])
         => returned = restoreCase(arg, pr[2])
    /\ (pc = "singular" /\ ToLowerCase(arg) = pr[2])
         => returned = restoreCase(arg, LastSingleFor(pr[2]))

\* singular('THEY') once 'they' is an uncountable word and a singular rule that
\* matches every word has been registered: a plural that several pairs share
C19_Witness ==
  /\ pc = "singular"
  /\ arg = ToUpperCase(S_they)
  /\ Cardinality({ pr \in IrregularPairs : pr[2] = S_they }) > 1
  /\ S_they \in uncountables
  /\ Len(singularRules) > Len(InitialSingularRules)
  /\ test(singularRules[Len(singularRules)][1], arg)

\* r has the casing pattern of w: lower case for a lower-case w, upper case
\* for an upper-case w, capitalized for a w whose first letter is upper-case,
\* and lower case for any other w
FollowsCasing(w, r) ==
  IF w = ToLowerCase(w) THEN r = ToLowerCase(r)
  ELSE IF w = ToUpperCase(w) THEN r = ToUpperCase(r)
  ELSE IF CharAt0(w) = ToUpperCase(CharAt0(w))
  THEN r = ToUpperCase(CharAt0(r)) \o ToLowerCase(Substr1(r))
  ELSE r = ToLowerCase(r)

\* C20: the whole result of plural(w) and of singular(w) follows the casing
\* pattern of w, for hits of the irregular table and for replacements by a
\* pattern rule alike.
C20_ResultFollowsCasing ==
  pc \in { "plural", "singular" } => FollowsCasing(arg, returned)

\* the word frequencies and word scores generateNgrams computes: over all
\* tokens, not over the filtered words
NgramWordFrequencies == calculateWordFrequency(words)
NgramWordScores == calculateWordScores(NgramWordFrequencies, Len(words))

\* the pooled n-grams at or above minFrequency
ScoredNgrams ==
  { NgramPool[i] : i \in { j \in 1..Len(NgramPool) :
                             NgramPool[j][2] >= options.minFrequency } }

\* C21: every Phrase result comes from an n-gram of the pool whose pooled
\* count is >= minFrequency and carries that count as its frequency, and its
\* score is computed with the maximum count of the whole pool, n-grams below
\* minFrequency included.
C21_PhrasesAtOrAboveMinFrequency ==
  pc = "done" =>
    \A p \in Phrases(phraseResults) \cup Phrases(result) :
      /\ p.frequency >= options.minFrequency
      /\ << p.tag, p.frequency >> \in ScoredNgrams
      /\ p.score = calculatePhraseScore(p.tag, p.frequency,
                     MathMaxValues(NgramPool), NgramWordScores,
                     NgramWordFrequencies, Len(words))

\* a call with minFrequency 2 whose pool holds n-grams below the threshold
\* and returns a phrase
C21_Witness ==
  /\ pc = "done"
  /\ options.minFrequency >= 2
  /\ Phrases(result) # {}
  /\ \E i \in 1..Len(NgramPool) : NgramPool[i][2] < options.minFrequency

\* the score of a component word, 0 for a word without a word score
ScoreOrZero(w) == IF MapHas(NgramWordScores, w) THEN MapGet(NgramWordScores, w) ELSE 0

RECURSIVE SumOfScores(_)
SumOfScores(ws) == IF ws = << >> THEN 0 ELSE ScoreOrZero(ws[1]) + SumOfScores(Tail(ws))

\* C22: for every n-gram generateTags scores, the average component score is
\* the sum of the word scores of its component words (0 for a component
\* without one) divided by the number of all its component words.
C22_AverageOverAllComponents ==
  (pc = "done" /\ options.includeNgrams) =>
    \A e \in ScoredNgrams :
      calculateAverageComponentScore(Split(e[1]), NgramWordScores)
        = SumOfScores(Split(e[1])) \div Len(Split(e[1]))

\* a returned phrase of several tokens one of which the word filter left out
C22_Witness ==
  /\ pc = "done"
  /\ \E p \in Phrases(result) :
       /\ Len(Tokens(p)) >= 2
       /\ << p.tag, p.frequency >> \in ScoredNgrams
       /\ \E w \in Range(Tokens(p)) : w \notin EligibleTokens

\* the word is a key of neither irregular map and not an uncountable word
HitsNoTable(w) ==
  /\ ~MapHas(irregularSingles, ToLowerCase(w))
  /\ ~MapHas(irregularPlurals, ToLowerCase(w))
  /\ ToLowerCase(w) \notin uncountables

\* the rules of the list whose pattern matches the word
MatchingRules(rules, w) == { i \in 1..Len(rules) : test(rules[i][1], w) }

\* the word with the latest registered matching rule applied, once; the word
\* itself when no rule matches
ByLatestMatchingRule(rules, w) ==
  LET matching == MatchingRules(rules, w)
  IN IF matching = {} THEN w
     ELSE replace(w, rules[CHOOSE i \in matching : \A j \in matching : j <= i])

\* C23 as stated: for a word that hits neither the irregular table nor the
\* uncountable set, plural and singular apply exactly the latest registered
\* rule whose pattern matches, and return the word unchanged when none does.
C23_LatestMatchingRuleWins ==
  /\ (pc = "plural" /\ HitsNoTable(arg))
       => returned = ByLatestMatchingRule(pluralRules, arg)
  /\ (pc = "singular" /\ HitsNoTable(arg))
       => returned = ByLatestMatchingRule(singularRules, arg)

\* C23 amended: the same for a non-empty word; the empty word is returned
\* as it is without a look at the rules.
C23_LatestMatchingRuleWinsNonEmpty ==
  /\ (pc = "plural" /\ HitsNoTable(arg))
       => returned = IF arg = << >> THEN arg
                     ELSE ByLatestMatchingRule(pluralRules, arg)
  /\ (pc = "singular" /\ HitsNoTable(arg))
       => returned = IF arg = << >> THEN arg
                     ELSE ByLatestMatchingRule(singularRules, arg)

\* plural('box') after a rule matching every word has been registered: the
\* built-in rules /s?$/i and /(x|ch|ss|sh|zz)$/i match as well
C23_Witness ==
  /\ pc = "plural"
  /\ arg = S_box
  /\ HitsNoTable(arg)
  /\ Len(pluralRules) > Len(InitialPluralRules)
  /\ Cardinality(MatchingRules(pluralRules, arg)) >= 3
  /\ returned # sanitizeFromEarliest(arg, InitialPluralRules, Len(InitialPluralRules))

\* all word candidates and all phrase candidates in rank order, uncut
RankedWords ==
  generateWordTags(words, options.minWordLength, options.minFrequency,
                   Len(words))
RankedPhrases ==
  IF options.includeNgrams
  THEN generatePhraseTags(words, options.ngramSizes, options.minNgramSize,
                          options.maxNgramSize, options.minFrequency,
                          Len(NgramPool))
  ELSE << >>

\* the first n elements of a ranked list
Top(ranked, n) == SubSeq(ranked, 1, Min(n, Len(ranked)))
\* the elements ranked after the first n
Beyond(ranked, n) == { ranked[i] : i \in (n + 1)..Len(ranked) }

\* C24: (for maxTags >= 0) the final output is the redundancy filter applied
\* to the top maxTags words and the top maxTags phrases; a phrase ranked
\* below the top maxTags phrases is not in the output, and a word dropped by
\* the filter is a token of a top phrase; a word ranked below the top maxTags
\* words is not in the output, whatever the filter drops.
C24_TruncationPrecedesFiltering ==
  (pc = "done" /\ options.maxTags >= 0) =>
    LET topWords == Top(RankedWords, options.maxTags)
        topPhrases == Top(RankedPhrases, options.maxTags)
    IN /\ wordResults = topWords
       /\ phraseResults = topPhrases
       /\ result = filterComponentWords(SortByScoreDesc(topWords \o topPhrases))
       /\ \A p \in Beyond(RankedPhrases, options.maxTags) : ~Survives(p)
       /\ \A w \in Beyond(RankedWords, options.maxTags) : ~Survives(w)
       /\ \A w \in Range(topWords) :
            ~Survives(w) => \E p \in Range(topPhrases) : w.tag \in Range(Tokens(p))

\* a call where a word and a phrase are ranked below the cut and the filter
\* drops a word above the cut
C24_Witness ==
  /\ pc = "done"
  /\ options.maxTags >= 0
  /\ Beyond(RankedWords, options.maxTags) # {}
  /\ Beyond(RankedPhrases, options.maxTags) # {}
  /\ \E w \in Range(Top(RankedWords, options.maxTags)) : ~Survives(w)
  /\ \E w \in Beyond(RankedWords, options.maxTags), p \in Beyond(RankedPhrases, options.maxTags) :
       w.tag \in Range(Tokens(p))

\* C25: a step that enters or leaves a call of plural(word) or singular(word)
\* leaves the irregular tables, both rule lists and the uncountable set as
\* they were, and the value returned is the one determined by the argument
\* and those tables.
C25_CallsLeaveTablesAlone ==
  [][ /\ (pc' \in { "plural", "singular" } \/ pc \in { "plural", "singular" })
        => tables' = tables
      /\ pc' = "plural" => returned' = plural(arg')
      /\ pc' = "singular" => returned' = singular(arg') ]_vars

\* a call made after an earlier registration extended a table, whose result
\* differs from its argument
C25_Witness ==
  /\ pc \in { "plural", "singular" }
  /\ ~ModuleInitialised
  /\ returned # arg

\* C26: each of the two tests named isSubsequence returns true exactly when
\* its first token array occurs as a contiguous run inside its second one.
C26_ContainmentIsContiguous ==
  pc \in { "service", "exported" } => contains = Some(ContiguousIn(first, second))

\* the resolved sizes are distinct and each is >= 1
SizesDistinctPositive ==
  /\ \A i \in 1..Len(ResolvedSizes) : ResolvedSizes[i] >= 1
  /\ \A i, j \in 1..Len(ResolvedSizes) : ResolvedSizes[i] = ResolvedSizes[j] => i = j

\* the raw count of a component word, 0 for a word that is no token
RawCount(w) == MapGetOr0(NgramWordFrequencies, w)

\* the least raw count among the component words of an n-gram
MinComponentCount(phrase) ==
  LET counts == { RawCount(Split(phrase)[k]) : k \in 1..Len(Split(phrase)) }
  IN  CHOOSE c \in counts : \A o \in counts : c <= o

\* calculateCohesionScore: expectedFreq after the loop over phraseWords
RECURSIVE ExpectedFreq(_, _)
ExpectedFreq(phraseWords, acc) ==
  IF phraseWords = << >> THEN acc
  ELSE ExpectedFreq(Tail(phraseWords), Min(acc, RawCount(phraseWords[1])))

\* C27: with distinct resolved sizes >= 1, the pooled count of every n-gram
\* is at most the raw count of each of its component words; expectedFreq,
\* started at the number of tokens, ends as the least component count and is
\* > 0; cohesion is the pooled count divided by it, which is at most 1.
C27_CohesionIsFreqOverRarestComponent ==
  (pc = "done" /\ options.includeNgrams /\ SizesDistinctPositive) =>
    \A e \in Range(NgramPool) :
      LET phraseWords == Split(e[1])
          expectedFreq == ExpectedFreq(phraseWords, Len(words))
      IN  /\ \A k \in 1..Len(phraseWords) : e[2] <= RawCount(phraseWords[k])
          /\ expectedFreq = MinComponentCount(e[1])
          /\ expectedFreq > 0
          /\ e[2] <= expectedFreq
          /\ calculateCohesionScore(phraseWords, e[2], NgramWordFrequencies, Len(words))
               = (e[2] * SCALE) \div expectedFreq

\* a call with several distinct sizes whose pool holds an n-gram of two
\* tokens that occurs twice and is rarer than its rarest component
C27_Witness ==
  /\ pc = "done"
  /\ options.includeNgrams
  /\ SizesDistinctPositive
  /\ Len(ResolvedSizes) >= 2
  /\ \E e \in Range(NgramPool) :
       /\ Len(Split(e[1])) >= 2
       /\ e[2] >= 2
       /\ e[2] < MinComponentCount(e[1])

\* the phrases identifyDirectSingularPluralPairs adds to phrasesToRemove
DirectlyMarked ==
  identifyDirectSingularPluralPairs(sortedTags, passBRemoved) \ passBRemoved

\* tags that differ by a trailing s of the last word, as
\* identifyDirectSingularPluralPairs builds potentialSingular and potentialPlural
DirectCounterpart(p, q) ==
  \/ q.tag = p.tag \o <<"s">>
  \/ p.tag = q.tag \o <<"s">>

\* C28: a phrase that identifyDirectSingularPluralPairs marks for removal has
\* a singular/plural counterpart among the candidates that is in the final
\* output.
C28_PassCCounterpartSurvives ==
  pc = "done" =>
    \A p \in Phrases(sortedTags) :
      p.tag \in DirectlyMarked =>
        \E q \in Range(sortedTags) : DirectCounterpart(p, q) /\ Survives(q)

\* the candidate phrases that hold a candidate phrase of strictly greater
\* score as a contiguous run
HoldsHigherScoredPhrase ==
  { b \in Phrases(sortedTags) :
      \E a \in Phrases(sortedTags) :
        a.score > b.score /\ ContiguousIn(Tokens(a), Tokens(b)) }

\* C29: the phrases identifyRedundantTags marks for removal are exactly the
\* candidate phrases that hold a candidate phrase of strictly greater score
\* as a contiguous run, whether or not that phrase is itself marked.
C29_PassBMarksEveryHolder ==
  pc = "done" => passBRemoved = { b.tag : b \in HoldsHigherScoredPhrase }

\* a marked phrase, which identifyRedundantTags skips, occurs with greater
\* score inside another candidate phrase
C29_Witness ==
  /\ pc = "done"
  /\ \E a, b \in Phrases(sortedTags) :
       /\ a.tag \in passBRemoved
       /\ a.score > b.score
       /\ ContiguousIn(Tokens(a), Tokens(b))

\* C30: the list the redundancy filter returns is the candidate list without
\* the tags it drops, each kept tag as it was and in its place, and the
\* filter applied to that list returns it unchanged.
C30_FilterIdempotentAndOnlyFilters ==
  pc = "done" =>
    /\ result = filterComponentWords(sortedTags)
    /\ result = SelectSeq(sortedTags, Survives)
    /\ filterComponentWords(result) = result

\* a candidate list of which the filter dropped a word and a phrase and kept
\* a tag
C30_Witness ==
  /\ pc = "done"
  /\ \E w \in WordsOf(sortedTags) : ~Survives(w)
  /\ \E p \in Phrases(sortedTags) : ~Survives(p)
  /\ result # << >>

=============================================================================
